---- MODULE Spec2Model ----
(***************************************************************************)
(* Model of the program-space search core of VX-REALITYCORE (src/vx_agi): *)
(* the enumerative synthesizer and its primitive registry, the capability  *)
(* expansion of VX_AGI, the primitive list of the genetic engine and the   *)
(* meta-strategy selector.                                                 *)
(*                                                                         *)
(* Python values are tagged pairs: <<"int", n>>, <<"bool", 0 or 1>>,        *)
(* <<"none", 0>>; <<"raise", 0>> stands for a raised exception.  An         *)
(* optional value (None or an object) is a sequence of length 0 or 1.      *)
(* Trees are the tuples of the source: <<"primitive", name>>, <<"var", i>>,*)
(* <<"const", v>>, <<"apply", name, children>>.                             *)
(***************************************************************************)
EXTENDS Integers, Sequences, FiniteSets, TLC

VARIABLES
    \* ProgramSynthesizer
    max_program_size,   \* self.max_program_size
    primitive_ops,      \* self.primitive_ops: insertion-ordered dict, a sequence of [name, fn]
    learned_programs,   \* self.learned_programs
    \* one synthesize call (its locals and its position)
    pc,                 \* "idle", "loop" (inside the two for loops), "done" (returned)
    examples,           \* the examples argument
    timeout_programs,   \* the timeout_programs argument
    size,               \* the loop variable of the outer for
    candidates,         \* the generator _enumerate_programs(size): the trees it has yet to yield
    programs_checked,   \* the local programs_checked
    result,             \* the value returned
    tested,             \* history: the candidates compiled and tested by this call, in order
    \* VX_AGI
    initial_capabilities, \* self.initial_capabilities
    ctx,                \* who called synthesize: "direct", "before", "after" (prove_unsolvable_now_solvable),
                        \* "learn" (learn_and_expand)
    original_primitives,\* the local original_primitives of prove_unsolvable_now_solvable
    proof,              \* the dict prove_unsolvable_now_solvable returns
    add_call,           \* history: the last add_learned_as_primitive call and what it met
    ever_registered,    \* history: every name that was ever a key of primitive_ops
    \* GeneticEvolution
    primitives,         \* self.primitives
    population,         \* self.population: a sequence of GeneticOperator
    population_size,    \* self.population_size
    tournament_size,    \* self.tournament_size
    generation,         \* self.generation
    best_ever,          \* self.best_ever: <<>> (None) or <<GeneticOperator>>
    evolve_call,        \* history: the last evolve_generation call: its fitness function, the
                        \* population as it was evaluated, and whether the call raised
    best_evaluated,     \* history: <<>> or <<the highest fitness any evaluation has assigned>>
    \* MetaLearner
    strategies,         \* self.strategies: insertion-ordered dict, a sequence of SynthesisStrategy
    problem_history,    \* self.problem_history
    strategy_mapping,   \* self.strategy_mapping: per signature <<>> (no key) or <<name>>
    success_patterns,   \* self.success_patterns: per signature the list of its success records
    call,               \* history: the last attempt_synthesis call: what it met (the mapping entry of the
                        \* signature, the registered names), what the strategy did and what the call returned
    \* calls of functions that keep no state
    fix_call,           \* the last call fix(f)(x): f, x, the local result, the number of applications
    enum_call,          \* the generator _enumerate_programs(size) being consumed: the
                        \* registry, the size and the trees it yields, in order
    cross_call,         \* the last crossover(parent1, parent2) that swapped subtrees:
                        \* the parents, the two points drawn and the children
    mutate_call,        \* the last mutate(operator) that mutated: the operator, the
                        \* mutation type drawn and the operator returned
    run_call,           \* the last run_evolution(fitness_function, generations): the
                        \* generations left, what it evaluated, what it returned
    \* VX_AGI.learn_and_expand
    capabilities,       \* self.capabilities
    agi_generation,     \* self.generation of the VX_AGI
    agi_learned,        \* self.learned_programs of the VX_AGI
    learn_call,         \* the last learn_and_expand(problem_set): the problem set, the loop
                        \* index, new_capabilities, the registry names at entry, what it returned
    registrations       \* history: the names learn_and_expand has registered, in order
                        \* of f, whether it returned, and (history) the values result has held

synthVars == <<max_program_size, primitive_ops, learned_programs, pc, examples,
               timeout_programs, size, candidates, programs_checked, result, tested>>
agiVars == <<initial_capabilities, ctx, original_primitives, proof, add_call, ever_registered>>
geneticVars == <<primitives, population, population_size, tournament_size, generation,
                 best_ever, evolve_call, best_evaluated>>
metaVars == <<strategies, problem_history, strategy_mapping, success_patterns, call>>
pureVars == <<fix_call, enum_call, cross_call, mutate_call, run_call>>
expandVars == <<capabilities, agi_generation, agi_learned, learn_call, registrations>>
vars == <<synthVars, agiVars, geneticVars, metaVars, pureVars, expandVars>>

(***************************************************************************)
(* Bounds of the model.                                                    *)
(***************************************************************************)
MaxSize == 2          \* largest max_program_size a synthesizer is built with
MaxLearned == 1       \* synthesize is not started again once this many programs were learned

None == <<"none", 0>>
Raise == <<"raise", 0>>
IntV(n) == <<"int", n>>
BoolV(b) == <<"bool", IF b THEN 1 ELSE 0>>

Range(s) == {s[i] : i \in 1..Len(s)}

RECURSIVE Concat(_)
\* the concatenation of a sequence of sequences
Concat(ss) ==
    IF ss = <<>> THEN <<>>
    ELSE IF Len(ss) = 1 THEN ss[1]
    ELSE LET half == Len(ss) \div 2
         IN Concat(SubSeq(ss, 1, half)) \o Concat(SubSeq(ss, half + 1, Len(ss)))

RECURSIVE SumSeq(_)
SumSeq(s) == IF s = <<>> THEN 0 ELSE Head(s) + SumSeq(Tail(s))

(***************************************************************************)
(* The primitive registry (synthesis_engine.py, _initialize_primitives).   *)
(* The model builds the registry from a sub-list of the 21 base primitives,*)
(* in their order in the source, with one primitive of each arity.         *)
(***************************************************************************)
BasePrimitives == <<"add", "not", "if">>

InitialPrimitives == [i \in 1..Len(BasePrimitives) |->
                        [name |-> BasePrimitives[i], fn |-> <<"base", BasePrimitives[i]>>]]

Names(ops) == {ops[i].name : i \in 1..Len(ops)}

\* self.primitive_ops[name]
Lookup(ops, name) == ops[CHOOSE i \in 1..Len(ops) : ops[i].name = name].fn

\* ProgramSynthesizer._get_arity
GetArity(op_name) ==
    IF op_name \in {"add", "sub", "mul", "div", "and", "or", "eq", "gt", "lt", "cons", "compose"}
    THEN 2
    ELSE IF op_name \in {"not", "identity", "head", "tail", "const"} THEN 1
    ELSE IF op_name \in {"if", "reduce"} THEN 3
    ELSE IF op_name \in {"map", "filter"} THEN 2
    ELSE 1

RECURSIVE PartitionsShortRange(_, _)
\* a variant of _partitions whose first part stops one short: range(1, n - 1)
PartitionsShortRange(n, k) ==
    IF k = 1 THEN << <<n>> >>
    ELSE IF k > 1
    THEN Concat([i \in 1..(n - 2) |->
                    LET rest == PartitionsShortRange(n - i, k - 1)
                    IN [j \in 1..Len(rest) |-> <<i>> \o rest[j]]])
    ELSE <<>>

RECURSIVE Partitions(_, _)
\* ProgramSynthesizer._partitions: the lists of k positive integers that sum to n, in order
Partitions(n, k) ==
    IF k = 1 THEN << <<n>> >>
    ELSE IF k > 1
    THEN Concat([i \in 1..(n - 1) |->
                    LET rest == Partitions(n - i, k - 1)
                    IN [j \in 1..Len(rest) |-> <<i>> \o rest[j]]])
    ELSE <<>>

\* a variant of line 231 that pairs the iterators position by position
\* (zip) instead of taking their product
ProductZipped(ss) ==
    IF ss = <<>> THEN << <<>> >>
    ELSE LET shortest == CHOOSE m \in {Len(ss[i]) : i \in 1..Len(ss)} :
                            \A i \in 1..Len(ss) : m <= Len(ss[i])
         IN [q \in 1..shortest |-> [i \in 1..Len(ss) |-> ss[i][q]]]

RECURSIVE Product(_)
\* itertools.product(*iterators): the tuples in lexicographic order, the last position fastest
Product(ss) ==
    IF ss = <<>> THEN << <<>> >>
    ELSE LET rest == Product(Tail(ss))
         IN Concat([i \in 1..Len(Head(ss)) |->
                       [j \in 1..Len(rest) |-> <<Head(ss)[i]>> \o rest[j]]])

RECURSIVE EnumeratePrograms(_, _)
\* ProgramSynthesizer._enumerate_programs(size) over the registry ops, as the
\* sequence of the trees the generator yields
EnumeratePrograms(n, ops) ==
    IF n = 1
    THEN [i \in 1..Len(ops) |-> <<"primitive", ops[i].name>>]
         \o [i \in 1..3 |-> <<"var", i - 1>>]
    ELSE Concat([o \in 1..Len(ops) |->
            LET op_name == ops[o].name
                parts == Partitions(n - 1, GetArity(op_name))
            IN Concat([p \in 1..Len(parts) |->
                    LET subs == Product([s \in 1..Len(parts[p]) |->
                                            EnumeratePrograms(parts[p][s], ops)])
                    IN [q \in 1..Len(subs) |-> <<"apply", op_name, subs[q]>>]])])

RECURSIVE AstSize(_)
\* VX_AGI._ast_size: the number of nodes of a tree
AstSize(ast) ==
    IF ast[1] = "apply"
    THEN 1 + SumSeq([i \in 1..Len(ast[3]) |-> AstSize(ast[3][i])])
    ELSE 1

(***************************************************************************)
(* The interpreter: _compile_ast and the call of a compiled function.      *)
(* A closure is <<"base", name>> (a lambda of _initialize_primitives),     *)
(* <<"varfn", i>> (the lambda of a var node), <<"constfn", v>> or          *)
(* <<"composed", op_func, compiled_subs>> (composed_func).                  *)
(***************************************************************************)
RECURSIVE CompileAst(_, _)
\* ProgramSynthesizer._compile_ast; Raise for the KeyError of an unknown
\* primitive and the ValueError of an unknown node
CompileAst(ast, ops) ==
    IF ast[1] = "primitive"
    THEN IF ast[2] \in Names(ops) THEN Lookup(ops, ast[2]) ELSE Raise
    ELSE IF ast[1] = "const" THEN <<"constfn", ast[2]>>
    ELSE IF ast[1] = "var" THEN <<"varfn", ast[2]>>
    ELSE IF ast[1] = "apply"
    THEN IF ast[2] \notin Names(ops) THEN Raise
         ELSE LET compiled_subs == [i \in 1..Len(ast[3]) |-> CompileAst(ast[3][i], ops)]
              IN IF \E i \in 1..Len(compiled_subs) : compiled_subs[i] = Raise
                 THEN Raise
                 ELSE <<"composed", Lookup(ops, ast[2]), compiled_subs>>
    ELSE Raise

IsNumber(v) == v[1] \in {"int", "bool"}

\* Python truthiness of a value
Truthy(v) == CASE v[1] = "int" -> v[2] # 0
               [] v[1] = "bool" -> v[2] # 0
               [] v[1] = "none" -> FALSE
               [] OTHER -> TRUE

\* Python ==: numbers compare by value (True == 1), None equals None, a
\* function equals no number and no None
PyEq(a, b) ==
    IF IsNumber(a) /\ IsNumber(b) THEN a[2] = b[2]
    ELSE a[1] = "none" /\ b[1] = "none"

\* the lambdas of _initialize_primitives, on the arguments args
CallBase(name, args) ==
    CASE name = "add" ->
            IF Len(args) # 2 THEN Raise
            ELSE IF IsNumber(args[1]) /\ IsNumber(args[2])
                 THEN IntV(args[1][2] + args[2][2])
                 ELSE Raise
      [] name = "not" ->
            IF Len(args) # 1 THEN Raise ELSE BoolV(~Truthy(args[1]))
      [] name = "if" ->
            IF Len(args) # 3 THEN Raise
            ELSE IF Truthy(args[1]) THEN args[2] ELSE args[3]
      [] OTHER -> Raise

RECURSIVE CallFn(_, _)
\* func(*args) for a closure func: the value returned, or Raise
CallFn(fn, args) ==
    CASE fn[1] = "base" -> CallBase(fn[2], args)
      [] fn[1] = "varfn" -> IF fn[2] < Len(args) THEN args[fn[2] + 1] ELSE None
      [] fn[1] = "constfn" -> fn[2]
      [] fn[1] = "composed" ->
            LET sub_results == [i \in 1..Len(fn[3]) |-> CallFn(fn[3][i], args)]
            IN IF \E i \in 1..Len(sub_results) : sub_results[i] = Raise
               THEN Raise
               ELSE CallFn(fn[2], sub_results)
      [] OTHER -> Raise

(***************************************************************************)
(* ProgramSynthesizer.synthesize                                           *)
(***************************************************************************)
\* the index split of synthesize (line 140)
\* a variant of line 140 that rounds the quotient up
SplitRoundedUp(ex) == (Len(ex) * 2 + 2) \div 3

\* split = len(examples) * 2 // 3 (line 140)
Split(ex) == (Len(ex) * 2) \div 3

TrainExamples(ex) == IF Len(ex) < 2 THEN ex ELSE SubSeq(ex, 1, Split(ex))

TestExamples(ex) == IF Len(ex) < 2 THEN <<>> ELSE SubSeq(ex, Split(ex) + 1, Len(ex))

RECURSIVE SatisfiedPastRaise(_, _)
\* a variant of the loop over train_examples whose except clause counts the
\* example and continues
SatisfiedPastRaise(func, exs) ==
    IF exs = <<>> THEN 0
    ELSE LET r == CallFn(func, Head(exs).inputs)
         IN (IF r = Raise \/ PyEq(r, Head(exs).output) THEN 1 ELSE 0)
            + SatisfiedPastRaise(func, Tail(exs))

RECURSIVE Satisfied(_, _)
\* the loop over train_examples (lines 160-167): the number of examples
\* matched before the loop ends or an evaluation raises (break)
Satisfied(func, exs) ==
    IF exs = <<>> THEN 0
    ELSE LET r == CallFn(func, Head(exs).inputs)
         IN IF r = Raise THEN 0
            ELSE (IF PyEq(r, Head(exs).output) THEN 1 ELSE 0) + Satisfied(func, Tail(exs))

\* a variant of the test of line 170 that requires a match on every example of
\* the call, held-out ones included
IsSolutionOnAllExamples(func, train) == Satisfied(func, examples) = Len(examples)

\* the test of line 170
IsSolution(func, train) == Satisfied(func, train) = Len(train)

RECURSIVE GeneralizesSkippingRaise(_, _)
\* a variant of the loop over test_examples that skips an example whose
\* evaluation raises
GeneralizesSkippingRaise(func, exs) ==
    IF exs = <<>> THEN TRUE
    ELSE LET r == CallFn(func, Head(exs).inputs)
         IN IF r = Raise THEN GeneralizesSkippingRaise(func, Tail(exs))
            ELSE IF ~PyEq(r, Head(exs).output) THEN FALSE
            ELSE GeneralizesSkippingRaise(func, Tail(exs))

RECURSIVE Generalizes(_, _)
\* the loop over test_examples (lines 172-182)
Generalizes(func, exs) ==
    IF exs = <<>> THEN TRUE
    ELSE LET r == CallFn(func, Head(exs).inputs)
         IN IF r = Raise THEN FALSE
            ELSE IF ~PyEq(r, Head(exs).output) THEN FALSE
            ELSE Generalizes(func, Tail(exs))

RECURSIVE JoinCodes(_)
\* ', '.join(sub_codes)
JoinCodes(cs) ==
    IF cs = <<>> THEN ""
    ELSE IF Len(cs) = 1 THEN cs[1]
    ELSE cs[1] \o ", " \o JoinCodes(Tail(cs))

RECURSIVE AstToCode(_)
\* ProgramSynthesizer._ast_to_code
AstToCode(ast) ==
    IF ast[1] = "primitive" THEN ast[2]
    ELSE IF ast[1] = "var" THEN "arg" \o ToString(ast[2])
    ELSE IF ast[1] = "apply"
    THEN ast[2] \o "(" \o JoinCodes([i \in 1..Len(ast[3]) |-> AstToCode(ast[3][i])]) \o ")"
    ELSE "unknown"

\* a variant of the test of line 150 with a strict comparison
BudgetExceeded(checked, budget) == checked > budget

\* the test of line 150
BudgetExhausted(checked, budget) == checked >= budget

\* the sizes the outer loop visits: range(1, self.max_program_size + 1)
SizeInRange(n) == n <= max_program_size

\* a variant of line 149 that enumerates the next size
GeneratorOfNextSize(n, ops) == IF SizeInRange(n) THEN EnumeratePrograms(n + 1, ops) ELSE <<>>

\* the generator the inner for iterates when the outer loop reaches size n
\* (line 149); there is none once n is out of range
Generator(n, ops) == IF SizeInRange(n) THEN EnumeratePrograms(n, ops) ELSE <<>>

\* the entry of synthesize: the locals before the first iteration
EnterSynthesize(ex, budget, ops) ==
    /\ pc' = "loop"
    /\ examples' = ex
    /\ timeout_programs' = budget
    /\ size' = 1
    /\ candidates' = Generator(1, ops)
    /\ programs_checked' = 0
    /\ result' = <<>>
    /\ tested' = <<>>

\* the call is over: its locals and its generator are gone
LeaveSynthesize ==
    /\ examples' = <<>>
    /\ timeout_programs' = 0
    /\ size' = 0
    /\ candidates' = <<>>
    /\ programs_checked' = 0
    /\ result' = <<>>
    /\ tested' = <<>>

\* the outer loop moves to the next size, where programs_checked is 0 again (line 146)
NextSize ==
    /\ size' = size + 1
    /\ candidates' = Generator(size + 1, primitive_ops)
    /\ programs_checked' = 0

\* the generator of this size is exhausted
SynthNextSize ==
    /\ pc = "loop"
    /\ SizeInRange(size)
    /\ candidates = <<>>
    /\ NextSize
    /\ UNCHANGED <<max_program_size, primitive_ops, learned_programs, pc, examples,
                   timeout_programs, result, tested>>
    /\ UNCHANGED <<agiVars, geneticVars, metaVars, pureVars, expandVars>>

\* lines 150-151: the budget test ends the inner loop only
SynthBudgetBreak ==
    /\ pc = "loop"
    /\ SizeInRange(size)
    /\ candidates # <<>>
    /\ BudgetExhausted(programs_checked, timeout_programs)
    /\ NextSize
    /\ UNCHANGED <<max_program_size, primitive_ops, learned_programs, pc, examples,
                   timeout_programs, result, tested>>
    /\ UNCHANGED <<agiVars, geneticVars, metaVars, pureVars, expandVars>>

\* lines 153-199: one candidate is compiled and tested
SynthTest ==
    /\ pc = "loop"
    /\ SizeInRange(size)
    /\ candidates # <<>>
    /\ ~BudgetExhausted(programs_checked, timeout_programs)
    /\ LET program_ast == Head(candidates)
           func == CompileAst(program_ast, primitive_ops)
           train == TrainExamples(examples)
           test == TestExamples(examples)
       IN /\ programs_checked' = programs_checked + 1
          /\ tested' = Append(tested, [size |-> size, ast |-> program_ast])
          /\ IF func # Raise /\ IsSolution(func, train)
             THEN LET synthesized == [code |-> AstToCode(program_ast),
                                      function |-> func,
                                      cost |-> size,
                                      examples_satisfied |-> Satisfied(func, train),
                                      generalizes |-> Generalizes(func, test)]
                  IN /\ learned_programs' = Append(learned_programs, synthesized)
                     /\ result' = <<synthesized>>
                     /\ pc' = "done"
                     /\ candidates' = Tail(candidates)
             ELSE /\ candidates' = Tail(candidates)
                  /\ UNCHANGED <<learned_programs, result, pc>>
    /\ UNCHANGED <<max_program_size, primitive_ops, examples, timeout_programs, size>>
    /\ UNCHANGED <<agiVars, geneticVars, metaVars, pureVars, expandVars>>

\* line 201: every size was visited and nothing matched
SynthExhausted ==
    /\ pc = "loop"
    /\ ~SizeInRange(size)
    /\ result' = <<>>
    /\ pc' = "done"
    /\ UNCHANGED <<max_program_size, primitive_ops, learned_programs, examples,
                   timeout_programs, size, candidates, programs_checked, tested>>
    /\ UNCHANGED <<agiVars, geneticVars, metaVars, pureVars, expandVars>>

(***************************************************************************)
(* GeneticEvolution (genetic_operators.py): the primitive list and the     *)
(* random trees.  The model keeps the sub-list of self.primitives that the *)
(* registry of the model holds.                                            *)
(***************************************************************************)
GeneticPrimitives == <<"add", "not", "if">>

\* GeneticEvolution._get_arity
GeneticArity(primitive) ==
    IF primitive \in {"add", "sub", "mul", "div", "and", "or", "eq", "gt", "lt", "cons"} THEN 2
    ELSE IF primitive \in {"not", "identity", "head", "tail"} THEN 1
    ELSE IF primitive \in {"if", "reduce"} THEN 3
    ELSE IF primitive \in {"map", "filter"} THEN 2
    ELSE 1

\* the terminals of _generate_random_ast (lines 93-96)
Terminals ==
    {<<"var", i>> : i \in 0..2}
    \cup {<<"const", v>> : v \in {IntV(0), IntV(1), IntV(2), BoolV(TRUE), BoolV(FALSE)}}

\* the tuples of k trees of the set sub, for the arities 1, 2 and 3
ChildTuples(k, sub) ==
    IF k = 1 THEN {<<a>> : a \in sub}
    ELSE IF k = 2 THEN {<<a, b>> : a \in sub, b \in sub}
    ELSE {<<a, b, c>> : a \in sub, b \in sub, c \in sub}

RECURSIVE GenerateRandomAst(_, _, _)
\* GeneticEvolution._generate_random_ast(max_depth, method): the set of the
\* trees the random choices can produce from the primitive list prims
GenerateRandomAst(max_depth, method, prims) ==
    (IF max_depth = 0 \/ method = "grow" THEN Terminals ELSE {})
    \cup (IF max_depth = 0 THEN {}
          ELSE UNION {{<<"apply", prims[i], ch>> :
                          ch \in ChildTuples(GeneticArity(prims[i]),
                                             GenerateRandomAst(max_depth - 1, method, prims))} :
                      i \in 1..Len(prims)})

RECURSIVE UsesName(_, _)
\* whether the tree names the primitive
UsesName(ast, name) ==
    IF ast[1] = "primitive" THEN ast[2] = name
    ELSE IF ast[1] = "apply"
    THEN ast[2] = name \/ \E i \in 1..Len(ast[3]) : UsesName(ast[3][i], name)
    ELSE FALSE

(***************************************************************************)
(* MetaLearner (meta_learner.py).  Elapsed times are whole ticks; the      *)
(* running mean avg_program_size is kept as an exact fraction <<num, den>>.*)
(***************************************************************************)
MaxAttempts == 2      \* attempt_synthesis is not called again once the history is this long

\* the names strategies are registered under
StrategyNames == <<"enumerative", "genetic", "custom">>

\* ProblemCharacteristics.signature() of the problems attempted
Signatures == {"3_1_int", "2_2_bool"}

\* the values of time.time() - start_time
ElapsedTimes == {1, 2}

\* what strategy.synthesize_func does: it returns an object with a cost, an
\* object without one, an object whose cost is not a number ("malformed"),
\* None, or it raises
Outcomes ==
    {[kind |-> "found", cost |-> <<c>>] : c \in {1, 2}}
    \cup {[kind |-> k, cost |-> <<>>] : k \in {"found", "malformed", "none", "raised"}}

RECURSIVE Gcd(_, _)
Gcd(a, b) == IF b = 0 THEN a ELSE Gcd(b, a % b)

\* a fraction in lowest terms
Reduce(q) == LET g == Gcd(q[1], q[2]) IN IF g = 0 THEN q ELSE <<q[1] \div g, q[2] \div g>>

\* SynthesisStrategy(name=name, synthesize_func=...) with the default fields
NewStrategy(name) ==
    [name |-> name, success_count |-> 0, failure_count |-> 0, total_time |-> 0,
     avg_program_size |-> <<0, 1>>]

\* self.strategies.keys()
StrategyKeys == {strategies[i].name : i \in 1..Len(strategies)}

\* self.strategies[name]
Strategy(name) == strategies[CHOOSE i \in 1..Len(strategies) : strategies[i].name = name]

\* self.strategies[name] = strat
PutStrategy(strat) ==
    IF strat.name \in StrategyKeys
    THEN [i \in 1..Len(strategies) |->
            IF strategies[i].name = strat.name THEN strat ELSE strategies[i]]
    ELSE Append(strategies, strat)

\* MetaLearner.register_strategy
RegisterStrategy(name) ==
    /\ strategies' = PutStrategy(NewStrategy(name))
    /\ UNCHANGED <<problem_history, strategy_mapping, success_patterns, call>>
    /\ UNCHANGED <<synthVars, agiVars, geneticVars, pureVars, expandVars>>

\* a variant of select_strategy without the lookup of lines 88-89
SelectStrategyIgnoringMapping(signature) ==
    IF "enumerative" \in StrategyKeys THEN {"enumerative"} ELSE StrategyKeys

\* a variant of select_strategy without the default of lines 92-93: with no
\* mapping entry it draws among the registered strategies
SelectStrategyWithoutDefault(signature) ==
    IF strategy_mapping[signature] # <<>> THEN {strategy_mapping[signature][1]}
    ELSE StrategyKeys

\* a variant of select_strategy that looks for 'enumerative' before the mapping
SelectStrategyDefaultFirst(signature) ==
    IF "enumerative" \in StrategyKeys THEN {"enumerative"}
    ELSE IF strategy_mapping[signature] # <<>> THEN {strategy_mapping[signature][1]}
    ELSE StrategyKeys

\* MetaLearner.select_strategy: the names it can return; none when
\* random.choice is given an empty list (IndexError)
SelectStrategy(signature) ==
    IF strategy_mapping[signature] # <<>> THEN {strategy_mapping[signature][1]}
    ELSE IF "enumerative" \in StrategyKeys THEN {"enumerative"}
    ELSE StrategyKeys

RECURSIVE StrategyTimes(_)
\* the keys of strategy_times (lines 194-196), in insertion order
StrategyTimes(successes) ==
    IF successes = <<>> THEN <<>>
    ELSE LET front == SubSeq(successes, 1, Len(successes) - 1)
             last == successes[Len(successes)].strategy
             keys == StrategyTimes(front)
         IN IF \E i \in 1..Len(keys) : keys[i] = last THEN keys ELSE Append(keys, last)

\* strategy_times[name]
TimesOf(successes, name) ==
    LET recs == SelectSeq(successes, LAMBDA r : r.strategy = name)
    IN [i \in 1..Len(recs) |-> recs[i].time]

\* sum(x) / len(x) of a is less than that of b
MeanLess(a, b) == SumSeq(a) * Len(b) < SumSeq(b) * Len(a)

\* a variant of lines 198-201 that takes the last key of least mean
BestStrategyLastKey(successes) ==
    LET keys == StrategyTimes(successes)
        i == CHOOSE i \in 1..Len(keys) :
                /\ \A j \in 1..Len(keys) :
                      ~MeanLess(TimesOf(successes, keys[j]), TimesOf(successes, keys[i]))
                /\ \A j \in (i + 1)..Len(keys) :
                      MeanLess(TimesOf(successes, keys[i]), TimesOf(successes, keys[j]))
    IN keys[i]

\* min(strategy_times.items(), key=mean)[0]: the first key of least mean
BestStrategy(successes) ==
    LET keys == StrategyTimes(successes)
        i == CHOOSE i \in 1..Len(keys) :
                /\ \A j \in 1..Len(keys) :
                      ~MeanLess(TimesOf(successes, keys[j]), TimesOf(successes, keys[i]))
                /\ \A j \in 1..(i - 1) :
                      MeanLess(TimesOf(successes, keys[i]), TimesOf(successes, keys[j]))
    IN keys[i]

\* MetaLearner._update_strategy_mapping on the success records patterns
UpdateStrategyMapping(patterns, signature) ==
    IF patterns[signature] = <<>> THEN strategy_mapping
    ELSE [strategy_mapping EXCEPT ![signature] = <<BestStrategy(patterns[signature])>>]

\* lines 121-128: the counters of the strategy after a success
RecordSuccess(strat, elapsed, cost) ==
    LET n == strat.success_count + 1
        avg == strat.avg_program_size
    IN [strat EXCEPT !.success_count = n,
                     !.total_time = @ + elapsed,
                     !.avg_program_size =
                        IF cost = <<>> THEN @
                        ELSE Reduce(<<avg[1] * (n - 1) + cost[1] * avg[2], avg[2] * n>>)]

\* lines 122-123 alone: the counters when the success branch is left by an
\* exception before line 125 has assigned
RecordSuccessBegun(strat, elapsed) ==
    [strat EXCEPT !.success_count = @ + 1, !.total_time = @ + elapsed]

\* a variant of lines 152-153 and 166-167 that does not add the elapsed time
RecordFailureUntimed(strat, elapsed) ==
    [strat EXCEPT !.failure_count = @ + 1]

\* lines 152-153 and 166-167: the counters of the strategy after a failure
RecordFailure(strat, elapsed) ==
    [strat EXCEPT !.failure_count = @ + 1, !.total_time = @ + elapsed]

\* a problem_history entry
HistoryRecord(signature, name, success, elapsed, error) ==
    [problem |-> signature, strategy |-> name, success |-> success, time |-> elapsed,
     error |-> error]

\* MetaLearner.attempt_synthesis, the selected strategy doing outcome after
\* elapsed ticks
AttemptSynthesis(signature, outcome, elapsed) ==
    /\ Len(problem_history) < MaxAttempts
    /\ \/ /\ SelectStrategy(signature) = {}
          /\ call' = <<[signature |-> signature, mapped |-> strategy_mapping[signature],
                        keys |-> StrategyKeys, strategy |-> <<>>, outcome |-> "unselected",
                        elapsed |-> 0, returned |-> Raise]>>
          /\ UNCHANGED <<strategies, problem_history, strategy_mapping, success_patterns>>
       \/ \E strategy_name \in SelectStrategy(signature) :
            LET strategy == Strategy(strategy_name) IN
            IF outcome.kind = "found"
            THEN LET patterns == [success_patterns EXCEPT ![signature] =
                                    Append(@, [strategy |-> strategy_name, time |-> elapsed,
                                               program_size |-> IF outcome.cost = <<>> THEN 0
                                                                ELSE outcome.cost[1]])]
                 IN /\ strategies' = PutStrategy(RecordSuccess(strategy, elapsed, outcome.cost))
                    /\ success_patterns' = patterns
                    /\ strategy_mapping' = UpdateStrategyMapping(patterns, signature)
                    /\ problem_history' = Append(problem_history,
                            HistoryRecord(signature, strategy_name, TRUE, elapsed, FALSE))
                    /\ call' = <<[signature |-> signature,
                                  mapped |-> strategy_mapping[signature],
                                  keys |-> StrategyKeys, strategy |-> <<strategy_name>>,
                                  outcome |-> "found", elapsed |-> elapsed,
                                  returned |-> <<"program", outcome.cost>>]>>
            ELSE IF outcome.kind = "malformed"
            THEN \* lines 122-123 have run when the sum of line 126 raises; the
                 \* handler of lines 164-177 reads the clock again
                 \E later \in ElapsedTimes :
                    /\ later >= elapsed
                    /\ strategies' = PutStrategy(RecordFailure(
                            RecordSuccessBegun(strategy, elapsed), later))
                    /\ problem_history' = Append(problem_history,
                            HistoryRecord(signature, strategy_name, FALSE, later, TRUE))
                    /\ call' = <<[signature |-> signature,
                                  mapped |-> strategy_mapping[signature],
                                  keys |-> StrategyKeys, strategy |-> <<strategy_name>>,
                                  outcome |-> "malformed", elapsed |-> later,
                                  returned |-> None]>>
                    /\ UNCHANGED <<strategy_mapping, success_patterns>>
            ELSE /\ strategies' = PutStrategy(RecordFailure(strategy, elapsed))
                 /\ problem_history' = Append(problem_history,
                         HistoryRecord(signature, strategy_name, FALSE, elapsed,
                                       outcome.kind = "raised"))
                 /\ call' = <<[signature |-> signature,
                               mapped |-> strategy_mapping[signature],
                               keys |-> StrategyKeys, strategy |-> <<strategy_name>>,
                               outcome |-> outcome.kind, elapsed |-> elapsed,
                               returned |-> None]>>
                 /\ UNCHANGED <<strategy_mapping, success_patterns>>
    /\ UNCHANGED <<synthVars, agiVars, geneticVars, pureVars, expandVars>>

(***************************************************************************)
(* GeneticEvolution: the population and one generation.  A GeneticOperator *)
(* is [ast, fitness, age, mutations]; fitness values are integers.  The    *)
(* random draws of terminals are taken from DrawnTerminals and the trees   *)
(* are kept to MaxNodes nodes.                                             *)
(***************************************************************************)
MaxNodes == 2         \* evolve_generation is not followed when it builds a larger tree
MaxPopulation == 2    \* largest population_size
MaxGenerations == 2   \* evolve_generation is not called again at this generation

\* the terminals the random draws of the model return
DrawnTerminals == {<<"var", 0>>, <<"const", IntV(1)>>}

RECURSIVE DrawnAsts(_, _, _, _)
\* the trees of _generate_random_ast(max_depth, method) that have at most
\* nodes nodes and terminals of DrawnTerminals
DrawnAsts(max_depth, method, prims, nodes) ==
    (IF max_depth = 0 \/ method = "grow" THEN DrawnTerminals ELSE {})
    \cup (IF max_depth = 0 \/ nodes < 2 THEN {}
          ELSE LET sub == DrawnAsts(max_depth - 1, method, prims, nodes - 1)
               IN UNION {{t \in {<<"apply", prims[i], ch>> :
                                    ch \in ChildTuples(GeneticArity(prims[i]), sub)} :
                              AstSize(t) <= nodes} :
                         i \in 1..Len(prims)})

\* GeneticOperator(ast=ast, mutations=mutations)
NewOperator(ast, mutations) ==
    [ast |-> ast, fitness |-> 0, age |-> 0, mutations |-> mutations]

\* the fitness functions of the model: <<v>> is a returned value, <<>> a raise
FitnessFunctions == {"nodes", "fragile"}

FitnessFunction(fn, ast) ==
    IF fn = "nodes" THEN <<AstSize(ast)>>
    ELSE IF ast[1] = "var" THEN <<>>
    ELSE <<2 - AstSize(ast)>>

\* a variant of lines 128-131 in which a raise leaves the fitness as it was
AssignedFitnessKept(op, fn) ==
    LET r == FitnessFunction(fn, op.ast) IN IF r = <<>> THEN op.fitness ELSE r[1]

\* lines 128-131: the fitness assigned to one operator
AssignedFitness(op, fn) ==
    LET r == FitnessFunction(fn, op.ast) IN IF r = <<>> THEN 0 ELSE r[1]

\* the loop of evaluate_fitness (lines 128-132)
Evaluated(pop, fn) ==
    [i \in 1..Len(pop) |-> [pop[i] EXCEPT !.fitness = AssignedFitness(pop[i], fn)]]

\* max(pop, key=fitness): the first operator of the highest fitness
Best(pop) ==
    pop[CHOOSE i \in 1..Len(pop) :
            /\ \A j \in 1..Len(pop) : pop[j].fitness <= pop[i].fitness
            /\ \A j \in 1..(i - 1) : pop[j].fitness < pop[i].fitness]

\* a variant of lines 135-136 that takes the best of the population each time
UpdatedBestEverAlways(best, pop) == <<Best(pop)>>

\* lines 134-136: best_ever after an evaluation of pop
UpdatedBestEver(best, pop) ==
    IF best = <<>> \/ Best(pop).fitness > best[1].fitness THEN <<Best(pop)>> ELSE best

\* a variant of lines 294-295 that keeps the first individual
EliteFirst(pop) == pop[1]

\* lines 294-295: the individual elitism keeps
Elite(pop) == Best(pop)

\* GeneticEvolution.selection: the operators a tournament can return
Selection(pop, k) ==
    {pop[i] : i \in {i \in 1..Len(pop) :
                        \E S \in SUBSET (1..Len(pop)) :
                            /\ Cardinality(S) = k /\ i \in S
                            /\ \A j \in S : pop[j].fitness <= pop[i].fitness}}

RECURSIVE GetAllSubtrees(_)
\* GeneticEvolution._get_all_subtrees: the subtrees in pre-order
GetAllSubtrees(ast) ==
    IF ast[1] = "apply"
    THEN <<ast>> \o Concat([i \in 1..Len(ast[3]) |-> GetAllSubtrees(ast[3][i])])
    ELSE <<ast>>

RECURSIVE ReplaceInAst(_, _, _)
\* replace_in_ast of _replace_subtree (lines 259-265)
ReplaceInAst(node, target, new_subtree) ==
    IF node = target THEN new_subtree
    ELSE IF node[1] = "apply"
    THEN <<"apply", node[2],
           [i \in 1..Len(node[3]) |-> ReplaceInAst(node[3][i], target, new_subtree)]>>
    ELSE node

\* GeneticEvolution._replace_subtree; index counts from 0
ReplaceSubtree(ast, index, new_subtree) ==
    LET subtrees == GetAllSubtrees(ast)
    IN IF index >= Len(subtrees) THEN ast
       ELSE ReplaceInAst(ast, subtrees[index + 1], new_subtree)

\* GeneticEvolution._point_mutation: the trees it can return
PointMutation(ast) ==
    IF ast[1] = "var" THEN {t \in DrawnTerminals : t[1] = "var"}
    ELSE IF ast[1] = "const" THEN {t \in DrawnTerminals : t[1] = "const"}
    ELSE IF ast[1] = "apply" THEN {<<"apply", primitives[i], ast[3]>> : i \in 1..Len(primitives)}
    ELSE {ast}

\* lines 178-193: the children of a crossover at the points drawn
CrossoverAt(parent1, parent2, point1, point2) ==
    LET subtrees1 == GetAllSubtrees(parent1.ast)
        subtrees2 == GetAllSubtrees(parent2.ast)
    IN <<NewOperator(ReplaceSubtree(parent1.ast, point1, subtrees2[point2 + 1]), 0),
         NewOperator(ReplaceSubtree(parent2.ast, point2, subtrees1[point1 + 1]), 0)>>

\* GeneticEvolution.crossover: the pairs of children it can return
Crossover(parent1, parent2) ==
    LET subtrees1 == GetAllSubtrees(parent1.ast)
        subtrees2 == GetAllSubtrees(parent2.ast)
    IN {<<parent1, parent2>>}
       \cup {CrossoverAt(parent1, parent2, point1, point2) :
                point1 \in 0..(Len(subtrees1) - 1), point2 \in 0..(Len(subtrees2) - 1)}

\* a variant of line 233 that may pick the root as well: random.choice(subtrees)
HoistAnySubtree(ast) ==
    LET subtrees == GetAllSubtrees(ast)
    IN IF Len(subtrees) > 1 THEN {subtrees[i] : i \in 1..Len(subtrees)} ELSE {ast}

\* lines 229-233: the trees hoist mutation can return
Hoist(ast) ==
    LET subtrees == GetAllSubtrees(ast)
    IN IF Len(subtrees) > 1 THEN {subtrees[i] : i \in 2..Len(subtrees)} ELSE {ast}

\* random.choice(['point', 'subtree', 'hoist'])
MutationTypes == {"point", "subtree", "hoist"}

\* lines 211-237: the operators mutate can return once the mutation type is
\* drawn; draws are the trees _generate_random_ast(max_depth=2) can return
MutateAs(operator, mutation_type, draws) ==
    LET subtrees == GetAllSubtrees(operator.ast)
        mutated_ast ==
            IF mutation_type = "point" THEN PointMutation(operator.ast)
            ELSE IF mutation_type = "subtree"
            THEN {ReplaceSubtree(operator.ast, p, new_subtree) :
                        p \in 0..(Len(subtrees) - 1), new_subtree \in draws}
            ELSE Hoist(operator.ast)
    IN {NewOperator(a, operator.mutations + 1) : a \in mutated_ast}

\* GeneticEvolution.mutate: the operators it can return, the copy of line 207
\* included
Mutate(operator, draws) ==
    {operator} \cup UNION {MutateAs(operator, t, draws) : t \in MutationTypes}

\* lines 301-305: the pairs of children two selected parents can have
Bred(pop) ==
    UNION {Crossover(parent1, parent2) :
           parent1 \in Selection(pop, tournament_size),
           parent2 \in Selection(pop, tournament_size)}

\* lines 311-312
Aged(child) == [child EXCEPT !.age = 0]

RECURSIVE NewPopulationsBothChildren(_, _, _)
\* a variant of the while loop without the test of line 316: the second
\* child is always appended
NewPopulationsBothChildren(new_population, pop, draws) ==
    IF Len(new_population) >= population_size THEN {new_population}
    ELSE UNION {UNION {NewPopulationsBothChildren(new_population \o <<Aged(c1), Aged(c2)>>,
                                                  pop, draws) :
                            c1 \in Mutate(pair[1], draws), c2 \in Mutate(pair[2], draws)} :
                pair \in Bred(pop)}

RECURSIVE NewPopulations(_, _, _)
\* the while loop of evolve_generation (lines 299-317): the populations it
\* can end with, from new_population
NewPopulations(new_population, pop, draws) ==
    IF Len(new_population) >= population_size THEN {new_population}
    ELSE IF Len(new_population) + 1 < population_size
    THEN UNION {UNION {NewPopulations(new_population \o <<Aged(c1), Aged(c2)>>, pop, draws) :
                            c1 \in Mutate(pair[1], draws), c2 \in Mutate(pair[2], draws)} :
                pair \in Bred(pop)}
    ELSE UNION {{Append(new_population, Aged(c1)) : c1 \in Mutate(pair[1], draws)} :
                pair \in Bred(pop)}

\* GeneticEvolution.initialize_population
InitializePopulation(max_depth) ==
    /\ \E pop \in [1..population_size ->
                        DrawnAsts(max_depth, "grow", primitives, MaxNodes)
                        \cup DrawnAsts(max_depth, "full", primitives, MaxNodes)] :
          /\ \A i \in 1..population_size :
                pop[i] \in DrawnAsts(max_depth,
                                     IF i - 1 < population_size \div 2 THEN "grow" ELSE "full",
                                     primitives, MaxNodes)
          /\ population' = [i \in 1..population_size |-> NewOperator(pop[i], 0)]
    /\ UNCHANGED <<primitives, population_size, tournament_size, generation, best_ever,
                   evolve_call, best_evaluated>>
    /\ UNCHANGED <<synthVars, agiVars, metaVars, pureVars, expandVars>>

\* the highest fitness of pop and of the evaluations before it
HighestEvaluated(pop) ==
    IF best_evaluated = <<>> \/ Best(pop).fitness > best_evaluated[1]
    THEN <<Best(pop).fitness>> ELSE best_evaluated

\* GeneticEvolution.evolve_generation.  It raises on an empty population
\* (max of an empty list) and, after the evaluation, when a tournament is
\* larger than the population (random.sample).
Evolved(fitness_function) ==
    /\ generation < MaxGenerations
    /\ IF population = <<>>
       THEN /\ evolve_call' = <<[fitness_function |-> fitness_function, evaluated |-> <<>>,
                                 raised |-> TRUE]>>
            /\ UNCHANGED <<population, generation, best_ever, best_evaluated>>
       ELSE LET pop == Evaluated(population, fitness_function)
                selects == 1 < population_size
            IN /\ best_ever' = UpdatedBestEver(best_ever, pop)
               /\ best_evaluated' = HighestEvaluated(pop)
               /\ IF selects /\ tournament_size > Len(pop)
                  THEN /\ population' = pop
                       /\ evolve_call' = <<[fitness_function |-> fitness_function,
                                            evaluated |-> pop, raised |-> TRUE]>>
                       /\ UNCHANGED generation
                  ELSE /\ \E new_population \in
                                NewPopulations(<<Elite(pop)>>, pop,
                                               DrawnAsts(2, "grow", primitives, MaxNodes)) :
                            /\ \A i \in 1..Len(new_population) :
                                  AstSize(new_population[i].ast) <= MaxNodes
                            /\ population' = new_population
                       /\ evolve_call' = <<[fitness_function |-> fitness_function,
                                            evaluated |-> pop, raised |-> FALSE]>>
                       /\ generation' = generation + 1
    /\ UNCHANGED <<primitives, population_size, tournament_size>>

\* evolve_generation called on its own
EvolveGeneration(fitness_function) ==
    /\ Evolved(fitness_function)
    /\ UNCHANGED <<synthVars, agiVars, metaVars, pureVars, expandVars>>

\* run_evolution(fitness_function, generations) is called
CallRunEvolution(fitness_function, generations) ==
    /\ IF run_call = <<>> THEN TRUE ELSE run_call[1].returned # <<>>
    /\ generation + generations <= MaxGenerations
    /\ run_call' = <<[fitness_function |-> fitness_function, left |-> generations,
                      evaluated |-> {}, returned |-> <<>>]>>
    /\ UNCHANGED <<geneticVars, synthVars, agiVars, metaVars, expandVars, fix_call, enum_call,
                   cross_call, mutate_call>>

\* one pass of the loop of run_evolution (lines 337-338); an exception of
\* evolve_generation ends the call
RunGeneration ==
    /\ run_call # <<>> /\ run_call[1].returned = <<>> /\ run_call[1].left > 0
    /\ Evolved(run_call[1].fitness_function)
    /\ run_call' = <<[run_call[1] EXCEPT
                        !.left = @ - 1,
                        !.evaluated = @ \cup Range(evolve_call'[1].evaluated),
                        !.returned = IF evolve_call'[1].raised THEN <<Raise>> ELSE <<>>]>>
    /\ UNCHANGED <<synthVars, agiVars, metaVars, expandVars, fix_call, enum_call, cross_call,
                   mutate_call>>

\* return self.best_ever (line 340)
RunReturn ==
    /\ run_call # <<>> /\ run_call[1].returned = <<>> /\ run_call[1].left = 0
    /\ run_call' = <<[run_call[1] EXCEPT
                        !.returned = <<IF best_ever = <<>> THEN None ELSE best_ever[1]>>]>>
    /\ UNCHANGED <<geneticVars, synthVars, agiVars, metaVars, expandVars, fix_call, enum_call,
                   cross_call, mutate_call>>

\* initialize_population called between two runs, as _genetic_synthesize does
\* before each run (agi_runtime.py line 122)
InitializeBeforeRun(max_depth) ==
    /\ IF run_call = <<>> THEN TRUE ELSE run_call[1].returned # <<>>
    /\ InitializePopulation(max_depth)

(***************************************************************************)
(* The fixed-point combinator (synthesis_engine.py, _fixed_point), on      *)
(* functions over the integers.                                            *)
(***************************************************************************)
MaxIter == 100

\* the functions f of the model: [kind, c]
FixFunctions ==
    {[kind |-> k, c |-> c] : k \in {"cap", "flip", "succ", "const"}, c \in {0, 1, 99, 100, 101}}

\* the start values
FixStarts == 0..5

\* f(v): count up to c, reflect in c, count up, or return c
ApplyFix(f, v) ==
    IF f.kind = "cap" THEN (IF v < f.c THEN v + 1 ELSE v)
    ELSE IF f.kind = "flip" THEN f.c - v
    ELSE IF f.kind = "succ" THEN v + 1
    ELSE f.c

\* a variant of line 115 with one pass less
FixPassesLeftShort(applied) == applied < MaxIter - 1

\* for _ in range(max_iter) (line 115): a pass is left after applied passes
FixPassesLeft(applied) == applied < MaxIter

\* a call fix(f)(x): lines 113-114
CallFix(f, x) ==
    /\ IF fix_call = <<>> THEN TRUE ELSE fix_call[1].returned
    /\ fix_call' = <<[f |-> f, x |-> x, result |-> x, applications |-> 0, trace |-> <<x>>,
                      returned |-> ~FixPassesLeft(0)]>>
    /\ UNCHANGED <<synthVars, agiVars, geneticVars, metaVars, expandVars, enum_call, cross_call,
                   mutate_call, run_call>>

\* one pass of the loop of fix_fn (lines 115-120), and the return that follows
\* the last pass
FixPass ==
    /\ fix_call # <<>> /\ ~fix_call[1].returned
    /\ LET c == fix_call[1]
           new_result == ApplyFix(c.f, c.result)
       IN fix_call' =
            IF new_result = c.result
            THEN <<[c EXCEPT !.applications = @ + 1, !.returned = TRUE]>>
            ELSE <<[c EXCEPT !.result = new_result,
                             !.applications = @ + 1,
                             !.trace = Append(@, new_result),
                             !.returned = ~FixPassesLeft(c.applications + 1)]>>
    /\ UNCHANGED <<synthVars, agiVars, geneticVars, metaVars, expandVars, enum_call, cross_call,
                   mutate_call, run_call>>

(***************************************************************************)
(* _update_strategy_mapping on its own: the method is applied to a         *)
(* MetaLearner whose success_patterns holds records of several strategies  *)
(* for a signature.                                                        *)
(***************************************************************************)
MaxRecords == 3

\* the success records of lines 131-135
SuccessRecords ==
    {[strategy |-> StrategyNames[n], time |-> t, program_size |-> 0] :
        n \in 1..Len(StrategyNames), t \in ElapsedTimes}

\* self._update_strategy_mapping(problem_chars, successful_strategy)
CallUpdateStrategyMapping(signature) ==
    /\ strategy_mapping' = UpdateStrategyMapping(success_patterns, signature)
    /\ UNCHANGED <<strategies, problem_history, success_patterns, call>>
    /\ UNCHANGED <<synthVars, agiVars, geneticVars, pureVars, expandVars>>

(***************************************************************************)
(* _enumerate_programs on its own: a generator is opened for a size over a *)
(* registry and consumed.  The registries are the lists of distinct names  *)
(* among three base primitives, one of each arity, and a learned one, in   *)
(* every insertion order.                                                  *)
(***************************************************************************)
MaxEnumSize == 4

EnumNames == {"add", "not", "if", "learned_0_0"}

\* the registry (a dict: no name twice) that holds the names in this order
RegistryOf(names) ==
    [i \in 1..Len(names) |->
        [name |-> names[i],
         fn |-> IF names[i] \in Range(BasePrimitives) THEN <<"base", names[i]>>
                ELSE <<"varfn", 0>>]]

Registries ==
    {RegistryOf(names) :
        names \in {l \in UNION {[1..k -> EnumNames] : k \in 0..Cardinality(EnumNames)} :
                        \A i, j \in 1..Len(l) : l[i] = l[j] => i = j}}

\* list(self._enumerate_programs(n)) with self.primitive_ops = ops
CallEnumeratePrograms(n, ops) ==
    /\ enum_call = <<>>
    /\ enum_call' = <<[size |-> n, ops |-> ops, programs |-> EnumeratePrograms(n, ops)]>>
    /\ UNCHANGED <<synthVars, agiVars, geneticVars, metaVars, expandVars, fix_call, cross_call,
                   mutate_call, run_call>>

\* the generator is exhausted and dropped
DropEnumerated ==
    /\ enum_call # <<>>
    /\ enum_call' = <<>>
    /\ UNCHANGED <<synthVars, agiVars, geneticVars, metaVars, expandVars, fix_call, cross_call,
                   mutate_call, run_call>>

(***************************************************************************)
(* crossover and mutate on their own, applied to operators whose trees are *)
(* trees _generate_random_ast can return.                                  *)
(***************************************************************************)
MaxVariationNodes == 3

\* the trees of _generate_random_ast(1) of at most MaxVariationNodes nodes
VariationTrees == DrawnAsts(1, "grow", GeneticPrimitives, MaxVariationNodes)

\* crossover(parent1, parent2) when the subtrees are swapped (lines 167-195),
\* random.choice drawing point1 and point2
CallCrossover(parent1, parent2, point1, point2) ==
    /\ point1 < Len(GetAllSubtrees(parent1.ast))
    /\ point2 < Len(GetAllSubtrees(parent2.ast))
    /\ cross_call' = <<[parent1 |-> parent1, parent2 |-> parent2,
                        point1 |-> point1, point2 |-> point2,
                        children |-> CrossoverAt(parent1, parent2, point1, point2)]>>
    /\ UNCHANGED <<synthVars, agiVars, geneticVars, metaVars, expandVars, fix_call, enum_call,
                   mutate_call, run_call>>

\* mutate(operator) when the operator is mutated (lines 209-237),
\* random.choice drawing mutation_type
CallMutate(operator, mutation_type) ==
    /\ \E mutated \in MutateAs(operator, mutation_type,
                                DrawnAsts(2, "grow", primitives, MaxVariationNodes)) :
            mutate_call' = <<[operator |-> operator, mutation_type |-> mutation_type,
                              mutated |-> mutated]>>
    /\ UNCHANGED <<synthVars, agiVars, geneticVars, metaVars, expandVars, fix_call, enum_call,
                   cross_call, run_call>>

(***************************************************************************)
(* The inputs of the model: example lists (IOExample lists) and budgets.   *)
(***************************************************************************)
Ex(ins, out) == [inputs |-> ins, output |-> out]

\* (1) the empty list; (2) f(1) = True, with the held-out example f(2) = True;
\* (3) "not b" on two arguments; (4) "b is truthy" on two
\* arguments; (5) addition, with a held-out example of one argument only;
\* (6) a single example, "the second argument"
Problems == <<
    <<>>,
    << Ex(<<IntV(1)>>, BoolV(TRUE)), Ex(<<IntV(2)>>, BoolV(TRUE)) >>,
    << Ex(<<IntV(1), IntV(0)>>, IntV(1)), Ex(<<IntV(1), IntV(1)>>, IntV(0)),
       Ex(<<IntV(0), IntV(0)>>, IntV(1)) >>,
    << Ex(<<IntV(1), IntV(2)>>, IntV(1)), Ex(<<IntV(1), IntV(0)>>, IntV(0)),
       Ex(<<IntV(0), IntV(3)>>, IntV(1)) >>,
    << Ex(<<IntV(1), IntV(1)>>, IntV(2)), Ex(<<IntV(1)>>, IntV(2)) >>,
    << Ex(<<IntV(0), IntV(1)>>, IntV(1)) >> >>

\* the budget of the callers in agi_runtime.py (lines 62, 261, 266)
RuntimeBudget == 5000

Budgets == {0, 2, RuntimeBudget}

\* names a caller passes to add_learned_as_primitive: the first name
\* learn_and_expand generates, and the name of a base primitive
PrimitiveNames == <<"learned_0_0", "add">>

(***************************************************************************)
(* Callers of synthesize: a direct call, and VX_AGI (agi_runtime.py).      *)
(***************************************************************************)
\* synthesize(examples, timeout_programs) called on the synthesizer
Synthesize(ex, budget) ==
    /\ pc = "idle"
    /\ Len(learned_programs) < MaxLearned
    /\ EnterSynthesize(ex, budget, primitive_ops)
    /\ ctx' = "direct"
    /\ UNCHANGED <<max_program_size, primitive_ops, learned_programs>>
    /\ UNCHANGED <<initial_capabilities, original_primitives, proof, add_call, ever_registered>>
    /\ UNCHANGED <<geneticVars, metaVars, pureVars, expandVars>>

\* the direct call returns to its caller
SynthReturn ==
    /\ pc = "done"
    /\ ctx = "direct"
    /\ pc' = "idle"
    /\ ctx' = "none"
    /\ LeaveSynthesize
    /\ UNCHANGED <<max_program_size, primitive_ops, learned_programs>>
    /\ UNCHANGED <<initial_capabilities, original_primitives, proof, add_call, ever_registered>>
    /\ UNCHANGED <<geneticVars, metaVars, pureVars, expandVars>>

\* self.primitive_ops[name] = fn: an existing key keeps its place, a new key is appended
Put(ops, name, fn) ==
    IF name \in Names(ops)
    THEN [i \in 1..Len(ops) |-> IF ops[i].name = name THEN [name |-> name, fn |-> fn] ELSE ops[i]]
    ELSE Append(ops, [name |-> name, fn |-> fn])

\* ProgramSynthesizer.add_learned_as_primitive(program, name), for a program
\* synthesize returned
AddLearnedAsPrimitive(program, name) ==
    /\ pc = "idle"
    /\ Len(learned_programs) <= MaxLearned
    /\ primitive_ops' = Put(primitive_ops, name, program.function)
    /\ add_call' = << [name |-> name,
                       function |-> program.function,
                       existed |-> name \in Names(primitive_ops),
                       old |-> IF name \in Names(primitive_ops)
                               THEN <<Lookup(primitive_ops, name)>> ELSE <<>>,
                       raised |-> FALSE] >>
    /\ ever_registered' = ever_registered \cup {name}
    /\ UNCHANGED <<max_program_size, learned_programs, pc, examples, timeout_programs,
                   size, candidates, programs_checked, result, tested>>
    /\ UNCHANGED <<initial_capabilities, ctx, original_primitives, proof>>
    /\ UNCHANGED <<geneticVars, metaVars, pureVars, expandVars>>

\* lines 256-259: the registry restricted to the initial capabilities
RestrictedOps(ops) == SelectSeq(ops, LAMBDA e : e.name \in initial_capabilities)

\* a variant of line 264 that leaves the registry as restricted
StillRestrictedOps == primitive_ops

\* line 264: the registry put back
RestoredOps == original_primitives

\* prove_unsolvable_now_solvable, lines 253-261: copy the registry, restrict
\* it, and start the first search
ProveStart(problem) ==
    /\ pc = "idle"
    /\ Len(learned_programs) <= MaxLearned
    /\ original_primitives' = primitive_ops
    /\ primitive_ops' = RestrictedOps(primitive_ops)
    /\ EnterSynthesize(problem, RuntimeBudget, RestrictedOps(primitive_ops))
    /\ ctx' = "before"
    /\ proof' = <<>>
    /\ UNCHANGED <<max_program_size, learned_programs>>
    /\ UNCHANGED <<initial_capabilities, add_call, ever_registered>>
    /\ UNCHANGED <<geneticVars, metaVars, pureVars, expandVars>>

\* lines 261-266: the first search returned; restore the registry and start
\* the second search
ProveRestore ==
    /\ pc = "done"
    /\ ctx = "before"
    /\ proof' = << [solution_before |-> result] >>
    /\ primitive_ops' = RestoredOps
    /\ EnterSynthesize(examples, RuntimeBudget, RestoredOps)
    /\ ctx' = "after"
    /\ UNCHANGED <<max_program_size, learned_programs>>
    /\ UNCHANGED <<initial_capabilities, original_primitives, add_call, ever_registered>>
    /\ UNCHANGED <<geneticVars, metaVars, pureVars, expandVars>>

\* lines 266-276: the second search returned; build the proof
ProveReturn ==
    /\ pc = "done"
    /\ ctx = "after"
    /\ LET solution_before == proof[1].solution_before
           solution_after == result
       IN proof' = << [solvable_with_initial_capabilities |-> solution_before # <<>>,
                       solvable_with_learned_capabilities |-> solution_after # <<>>,
                       capability_emergence_proven |->
                           solution_before = <<>> /\ solution_after # <<>>,
                       solution_before |-> solution_before,
                       solution_after |-> solution_after] >>
    /\ pc' = "idle"
    /\ ctx' = "none"
    /\ LeaveSynthesize
    /\ UNCHANGED <<max_program_size, primitive_ops, learned_programs>>
    /\ UNCHANGED <<initial_capabilities, original_primitives, add_call, ever_registered>>
    /\ UNCHANGED <<geneticVars, metaVars, pureVars, expandVars>>

(***************************************************************************)
(* VX_AGI.learn_and_expand (agi_runtime.py, lines 167-202).  Each problem  *)
(* is solved through solve_problem and attempt_synthesis by the strategy   *)
(* 'enumerative', which is synthesize with the budget of line 62.          *)
(***************************************************************************)
MaxLearnCalls == 2    \* learn_and_expand is not called again at this generation
MaxProblemSet == 2    \* longest problem_set passed to learn_and_expand

\* the problems of the sets passed to learn_and_expand
LearnProblems == Range(Problems)

\* the lists of at most MaxProblemSet problems
ProblemSets == UNION {[1..n -> LearnProblems] : n \in 0..MaxProblemSet}

\* a variant of line 192 that leaves the generation out of the name
GeneratedNameByIndex(gen, i) == "learned_0_" \o ToString(i)

\* line 192: f"learned_{self.generation}_{i}"
GeneratedName(gen, i) == "learned_" \o ToString(gen) \o "_" \o ToString(i)

\* solve_problem, lines 85-90: the signature() of the characteristics of a
\* problem that is not empty; input_types has one entry
SignatureOf(ex) == ToString(Len(ex)) \o "_1_" \o ex[1].output[1]

\* the signatures of the problems learn_and_expand is given
LearnSignatures == {SignatureOf(ex) : ex \in LearnProblems \ {<<>>}}

\* a learn_and_expand call is in its loop
Learning == IF learn_call = <<>> THEN FALSE ELSE learn_call[1].returned = <<>>

\* learn_and_expand(problem_set) is entered: line 179
LearnAndExpand(problem_set) ==
    /\ pc = "idle"
    /\ ~Learning
    /\ agi_generation < MaxLearnCalls
    /\ learn_call' = <<[problem_set |-> problem_set, i |-> 0, new_capabilities |-> 0,
                        generation |-> agi_generation, before |-> Names(primitive_ops),
                        returned |-> <<>>]>>
    /\ UNCHANGED <<capabilities, agi_generation, agi_learned, registrations>>
    /\ UNCHANGED <<synthVars, agiVars, geneticVars, metaVars, pureVars>>

\* lines 181-186 and solve_problem, lines 82-97: the next problem is taken;
\* an empty one is given up at once, for another attempt_synthesis selects
\* the strategy and 'enumerative' starts synthesize
LearnSolve ==
    /\ pc = "idle"
    /\ Learning
    /\ learn_call[1].i < Len(learn_call[1].problem_set)
    /\ LET ex == learn_call[1].problem_set[learn_call[1].i + 1]
       IN IF ex = <<>>
          THEN /\ learn_call' = <<[learn_call[1] EXCEPT !.i = @ + 1]>>
               /\ UNCHANGED <<synthVars, ctx>>
          ELSE /\ SelectStrategy(SignatureOf(ex)) = {"enumerative"}
               /\ EnterSynthesize(ex, RuntimeBudget, primitive_ops)
               /\ ctx' = "learn"
               /\ UNCHANGED <<max_program_size, primitive_ops, learned_programs, learn_call>>
    /\ UNCHANGED <<capabilities, agi_generation, agi_learned, registrations>>
    /\ UNCHANGED <<initial_capabilities, original_primitives, proof, add_call, ever_registered>>
    /\ UNCHANGED <<geneticVars, metaVars, pureVars>>

\* attempt_synthesis, lines 119-162, for the strategy 'enumerative' that
\* returned solution (<<>> for None) after elapsed ticks
EnumerativeAttempted(signature, solution, elapsed) ==
    LET strategy == Strategy("enumerative") IN
    IF solution # <<>>
    THEN LET patterns == [success_patterns EXCEPT ![signature] =
                            Append(@, [strategy |-> "enumerative", time |-> elapsed,
                                       program_size |-> solution[1].cost])]
         IN /\ strategies' = PutStrategy(RecordSuccess(strategy, elapsed, <<solution[1].cost>>))
            /\ success_patterns' = patterns
            /\ strategy_mapping' = UpdateStrategyMapping(patterns, signature)
            /\ problem_history' = Append(problem_history,
                    HistoryRecord(signature, "enumerative", TRUE, elapsed, FALSE))
            /\ call' = <<[signature |-> signature, mapped |-> strategy_mapping[signature],
                          keys |-> StrategyKeys, strategy |-> <<"enumerative">>,
                          outcome |-> "found", elapsed |-> elapsed,
                          returned |-> <<"program", <<solution[1].cost>> >>]>>
    ELSE /\ strategies' = PutStrategy(RecordFailure(strategy, elapsed))
         /\ problem_history' = Append(problem_history,
                 HistoryRecord(signature, "enumerative", FALSE, elapsed, FALSE))
         /\ call' = <<[signature |-> signature, mapped |-> strategy_mapping[signature],
                       keys |-> StrategyKeys, strategy |-> <<"enumerative">>,
                       outcome |-> "none", elapsed |-> elapsed, returned |-> None]>>
         /\ UNCHANGED <<strategy_mapping, success_patterns>>

\* synthesize returned: attempt_synthesis records the attempt, solve_problem
\* returns the solution (lines 99-113), and lines 188-196 register it if it
\* generalizes
LearnSolved(elapsed) ==
    /\ pc = "done"
    /\ ctx = "learn"
    /\ EnumerativeAttempted(SignatureOf(examples), result, elapsed)
    /\ LET c == learn_call[1]
           primitive_name == GeneratedName(agi_generation, c.i)
       IN IF result # <<>> /\ result[1].generalizes
          THEN /\ agi_learned' = Append(agi_learned, result[1])
               /\ primitive_ops' = Put(primitive_ops, primitive_name, result[1].function)
               /\ capabilities' = capabilities \cup {primitive_name}
               /\ registrations' = Append(registrations, primitive_name)
               /\ learn_call' = <<[c EXCEPT !.i = @ + 1, !.new_capabilities = @ + 1]>>
          ELSE /\ learn_call' = <<[c EXCEPT !.i = @ + 1]>>
               /\ UNCHANGED <<agi_learned, primitive_ops, capabilities, registrations>>
    /\ pc' = "idle"
    /\ ctx' = "none"
    /\ LeaveSynthesize
    /\ UNCHANGED <<max_program_size, learned_programs, agi_generation>>
    /\ UNCHANGED <<initial_capabilities, original_primitives, proof, add_call, ever_registered>>
    /\ UNCHANGED <<geneticVars, pureVars>>

\* lines 200-202: the loop is over
LearnReturn ==
    /\ pc = "idle"
    /\ Learning
    /\ learn_call[1].i = Len(learn_call[1].problem_set)
    /\ agi_generation' = agi_generation + 1
    /\ learn_call' = <<[learn_call[1] EXCEPT !.returned = <<learn_call[1].new_capabilities>>]>>
    /\ UNCHANGED <<capabilities, agi_learned, registrations>>
    /\ UNCHANGED <<synthVars, agiVars, geneticVars, metaVars, pureVars>>

(***************************************************************************)
(* The specification of the synthesizer and the capability expansion.      *)
(***************************************************************************)
\* the state after VX_AGI() / ProgramSynthesizer(max_program_size)
InitSynth ==
    /\ max_program_size \in 0..MaxSize
    /\ primitive_ops = InitialPrimitives
    /\ learned_programs = <<>>
    /\ pc = "idle"
    /\ examples = <<>>
    /\ timeout_programs = 0
    /\ size = 0
    /\ candidates = <<>>
    /\ programs_checked = 0
    /\ result = <<>>
    /\ tested = <<>>
    /\ initial_capabilities = Names(InitialPrimitives)
    /\ ctx = "none"
    /\ original_primitives = <<>>
    /\ proof = <<>>
    /\ add_call = <<>>
    /\ ever_registered = Names(InitialPrimitives)

\* GeneticEvolution(population_size, tournament_size=...)
NewGeneticEvolution(psize, tournament) ==
    /\ primitives = GeneticPrimitives
    /\ population = <<>>
    /\ population_size = psize
    /\ tournament_size = tournament
    /\ generation = 0
    /\ best_ever = <<>>
    /\ evolve_call = <<>>
    /\ best_evaluated = <<>>

\* VX_AGI.__init__: GeneticEvolution(population_size=50)
InitGenetic == NewGeneticEvolution(50, 5)

InitMeta ==
    /\ strategies = <<>>
    /\ problem_history = <<>>
    /\ strategy_mapping = [sig \in Signatures |-> <<>>]
    /\ success_patterns = [sig \in Signatures |-> <<>>]
    /\ call = <<>>

InitPure ==
    /\ fix_call = <<>>
    /\ enum_call = <<>>
    /\ cross_call = <<>>
    /\ mutate_call = <<>>
    /\ run_call = <<>>

\* VX_AGI.__init__, lines 49-52
InitExpand ==
    /\ capabilities = Names(InitialPrimitives)
    /\ agi_generation = 0
    /\ agi_learned = <<>>
    /\ learn_call = <<>>
    /\ registrations = <<>>

Init == InitSynth /\ InitGenetic /\ InitMeta /\ InitPure /\ InitExpand

SynthStep == SynthNextSize \/ SynthBudgetBreak \/ SynthTest \/ SynthExhausted

Next ==
    \/ \E p \in 1..Len(Problems), budget \in Budgets : Synthesize(Problems[p], budget)
    \/ SynthStep
    \/ SynthReturn
    \/ \E i \in 1..Len(learned_programs), n \in 1..Len(PrimitiveNames) :
            AddLearnedAsPrimitive(learned_programs[i], PrimitiveNames[n])
    \/ \E p \in 1..Len(Problems) : ProveStart(Problems[p])
    \/ ProveRestore
    \/ ProveReturn

Spec == Init /\ [][Next]_vars

\* a MetaLearner on its own: strategies are registered and problems attempted
NextMeta ==
    \/ \E n \in 1..Len(StrategyNames) : RegisterStrategy(StrategyNames[n])
    \/ \E signature \in Signatures, outcome \in Outcomes, elapsed \in ElapsedTimes :
            AttemptSynthesis(signature, outcome, elapsed)

\* a GeneticEvolution on its own: populations are made and evolved
NextGenetic ==
    \/ \E max_depth \in 0..1 : InitializePopulation(max_depth)
    \/ \E fitness_function \in FitnessFunctions : EvolveGeneration(fitness_function)

InitGeneticEvolution ==
    /\ InitSynth /\ max_program_size = MaxSize /\ InitMeta /\ InitPure /\ InitExpand
    /\ \E psize \in 1..MaxPopulation, tournament \in 1..MaxPopulation :
            NewGeneticEvolution(psize, tournament)

SpecGenetic == InitGeneticEvolution /\ [][NextGenetic]_vars

\* a GeneticEvolution used for runs of run_evolution
NextRun ==
    \/ \E max_depth \in 0..1 : InitializeBeforeRun(max_depth)
    \/ \E fitness_function \in FitnessFunctions, generations \in 1..MaxGenerations :
            CallRunEvolution(fitness_function, generations)
    \/ RunGeneration
    \/ RunReturn

SpecRun == InitGeneticEvolution /\ [][NextRun]_vars

\* register_strategy called with a name that is not registered yet
RegisterOnce(name) == name \notin StrategyKeys /\ RegisterStrategy(name)

\* a MetaLearner whose strategies are registered once under distinct names
NextRegisteredOnce ==
    \/ \E n \in 1..Len(StrategyNames) : RegisterOnce(StrategyNames[n])
    \/ \E signature \in Signatures, outcome \in Outcomes, elapsed \in ElapsedTimes :
            AttemptSynthesis(signature, outcome, elapsed)

\* the MetaLearner of a synthesizer built with the largest size
InitMetaLearner == Init /\ max_program_size = MaxSize

SpecMeta == InitMetaLearner /\ [][NextMeta]_vars

SpecRegisteredOnce == InitMetaLearner /\ [][NextRegisteredOnce]_vars

\* VX_AGI(): the synthesizer, the two strategies of _initialize_meta_learning
\* and no capability learned yet
InitLearn ==
    /\ InitSynth /\ max_program_size = MaxSize /\ InitGenetic /\ InitPure /\ InitExpand
    /\ strategies = <<NewStrategy("enumerative"), NewStrategy("genetic")>>
    /\ problem_history = <<>>
    /\ strategy_mapping = [sig \in LearnSignatures |-> <<>>]
    /\ success_patterns = [sig \in LearnSignatures |-> <<>>]
    /\ call = <<>>

\* a VX_AGI that is only asked to learn_and_expand; the budget of line 62
\* is out of reach of the registries of this specification, so the break of
\* lines 150-151 is not among the steps
NextLearn ==
    \/ \E problem_set \in ProblemSets : LearnAndExpand(problem_set)
    \/ LearnSolve
    \/ SynthNextSize
    \/ SynthTest
    \/ SynthExhausted
    \/ \E elapsed \in ElapsedTimes : LearnSolved(elapsed)
    \/ LearnReturn

SpecLearn == InitLearn /\ [][NextLearn]_vars

\* the fixed-point combinator on its own
NextFix ==
    \/ \E f \in FixFunctions, x \in FixStarts : CallFix(f, x)
    \/ FixPass

SpecFix == InitMetaLearner /\ [][NextFix]_vars

\* the mapping update on its own: every strategy is registered and one
\* signature has up to MaxRecords success records
InitMapping ==
    /\ InitSynth /\ max_program_size = MaxSize /\ InitGenetic /\ InitPure /\ InitExpand
    /\ strategies = [n \in 1..Len(StrategyNames) |-> NewStrategy(StrategyNames[n])]
    /\ problem_history = <<>>
    /\ strategy_mapping = [sig \in Signatures |-> <<>>]
    /\ call = <<>>
    /\ \E recs \in UNION {[1..k -> SuccessRecords] : k \in 0..MaxRecords},
          signature \in Signatures :
            success_patterns = [sig \in Signatures |->
                                    IF sig = signature THEN recs ELSE <<>>]

NextMapping == \E signature \in Signatures : CallUpdateStrategyMapping(signature)

SpecMapping == InitMapping /\ [][NextMapping]_vars

\* crossover on its own
NextCrossover ==
    \E t1 \in VariationTrees, t2 \in VariationTrees,
       point1 \in 0..(MaxVariationNodes - 1), point2 \in 0..(MaxVariationNodes - 1) :
        CallCrossover(NewOperator(t1, 0), NewOperator(t2, 0), point1, point2)

SpecCrossover == InitMetaLearner /\ [][NextCrossover]_vars

\* mutate on its own
NextMutate ==
    \E t \in VariationTrees, mutation_type \in MutationTypes :
        CallMutate(NewOperator(t, 0), mutation_type)

SpecMutate == InitMetaLearner /\ [][NextMutate]_vars

\* the enumeration on its own
NextEnumerate ==
    \/ \E n \in 1..MaxEnumSize, ops \in Registries : CallEnumeratePrograms(n, ops)
    \/ DropEnumerated

SpecEnumerate == InitMetaLearner /\ [][NextEnumerate]_vars

(***************************************************************************)
(* Claims about synthesize and the registry, checked under Spec.           *)
(***************************************************************************)
\* the program func produces the expected output on the example e
Produces(func, e) ==
    LET r == CallFn(func, e.inputs) IN r # Raise /\ PyEq(r, e.output)

\* the tree matches every training example of the running call
MatchesTraining(ast) ==
    LET func == CompileAst(ast, primitive_ops)
        train == TrainExamples(examples)
    IN func # Raise /\ \A i \in 1..Len(train) : Produces(func, train[i])

Returned == pc = "done"

\* C1: the candidate budget is cumulative over the whole call: at most
\* timeout_programs candidates are compiled and tested over all sizes together.
C1_CumulativeBudget ==
    pc \in {"loop", "done"} => Len(tested) <= timeout_programs

\* C2: candidates are tested in non-decreasing size order, and when a program
\* of cost s is returned no tested candidate of a smaller size matches all
\* training examples.
C2_SizeMinimal ==
    /\ \A i, j \in 1..Len(tested) : i < j => tested[i].size <= tested[j].size
    /\ (Returned /\ result # <<>>) =>
          \A i \in 1..Len(tested) :
              tested[i].size < result[1].cost => ~MatchesTraining(tested[i].ast)

\* a program of cost 2 was returned after smaller candidates were tested
C2_Witness ==
    /\ Returned /\ result # <<>> /\ result[1].cost = 2
    /\ \E i \in 1..Len(tested) : tested[i].size = 1

\* C3: a returned program produces the expected output on every training
\* example, and its generalizes flag is true exactly when it produces the
\* expected output on every held-out example (a raise counts as a mismatch).
C3_ResultCorrect ==
    (Returned /\ result # <<>>) =>
        LET func == result[1].function
            train == TrainExamples(examples)
            test == TestExamples(examples)
        IN /\ \A i \in 1..Len(train) : Produces(func, train[i])
           /\ result[1].generalizes <=> \A i \in 1..Len(test) : Produces(func, test[i])

\* a program was returned whose evaluation raises on a held-out example
C3_Witness ==
    /\ Returned /\ result # <<>>
    /\ ~result[1].generalizes
    /\ \E i \in 1..Len(TestExamples(examples)) :
          CallFn(result[1].function, TestExamples(examples)[i].inputs) = Raise

\* C4: with max_program_size = 0 or timeout_programs = 0 the call tests no
\* candidate, appends nothing to learned_programs and returns None.
C4_Boundary ==
    [][(pc = "loop" /\ (max_program_size = 0 \/ timeout_programs = 0)) =>
          /\ learned_programs' = learned_programs
          /\ tested' = <<>>
          /\ result' = <<>>
          /\ pc' \in {"loop", "done"}]_vars

\* a call with a budget of 0 on a synthesizer that has sizes to visit, and a
\* non-empty example list, has returned
C4_Witness ==
    /\ Returned /\ timeout_programs = 0 /\ max_program_size > 0
    /\ examples # <<>> /\ result = <<>>

\* C5: a name added by add_learned_as_primitive is usable by both engines:
\* synthesize enumerates trees that use it and the genetic engine can
\* generate trees that use it.
GenDepth == 1

C5_VisibleToBothEngines ==
    \A n \in Names(primitive_ops) \ initial_capabilities :
        /\ \E i \in 1..Len(EnumeratePrograms(1, primitive_ops)) :
              UsesName(EnumeratePrograms(1, primitive_ops)[i], n)
        /\ \E t \in GenerateRandomAst(GenDepth, "grow", primitives) : UsesName(t, n)

C7_DuplicateRejected ==
    (pc = "idle" /\ add_call # <<>> /\ add_call[1].existed) =>
        /\ add_call[1].raised
        /\ Lookup(primitive_ops, add_call[1].name) = add_call[1].old[1]

(***************************************************************************)
(* Claims about the MetaLearner, checked under SpecMeta.                   *)
(***************************************************************************)
\* C8: attempt_synthesis uses the strategy the mapping holds for the
\* signature; without a mapping entry it uses 'enumerative' if registered, and
\* otherwise one of the registered strategies; no other strategy is selected
\* (and none at all only when the mapping has no entry and nothing is
\* registered).
C8_SelectionPolicy ==
    call # <<>> =>
        LET c == call[1] IN
        IF c.strategy = <<>> THEN c.mapped = <<>> /\ c.keys = {}
        ELSE IF c.mapped # <<>> THEN c.strategy = c.mapped
        ELSE IF "enumerative" \in c.keys THEN c.strategy = <<"enumerative">>
        ELSE c.strategy[1] \in c.keys

\* an attempt was routed by the mapping to 'genetic' although 'enumerative'
\* was registered
C8_Witness ==
    /\ call # <<>>
    /\ call[1].mapped = <<"genetic">>
    /\ "enumerative" \in call[1].keys
    /\ call[1].strategy = <<"genetic">>

\* an attempt_synthesis step in which the selected strategy ran
Attempted == Len(problem_history') = Len(problem_history) + 1

\* C10: when the selected strategy finds no program or raises, the call
\* returns None, the strategy's failure_count grows by one and its total_time
\* by the elapsed time, one failure record is appended to the history, and the
\* mapping, the success records and every success_count stay as they were.
C10_FailureRecorded ==
    [][(Attempted /\ call'[1].outcome \in {"none", "raised"}) =>
          LET c == call'[1]
              i == CHOOSE i \in 1..Len(strategies) : strategies[i].name = c.strategy[1]
              last == problem_history'[Len(problem_history')]
          IN /\ c.returned = None
             /\ strategies'[i].name = c.strategy[1]
             /\ strategies'[i].failure_count = strategies[i].failure_count + 1
             /\ strategies'[i].total_time = strategies[i].total_time + c.elapsed
             /\ SubSeq(problem_history', 1, Len(problem_history)) = problem_history
             /\ last.success = FALSE /\ last.strategy = c.strategy[1]
             /\ last.problem = c.signature /\ last.time = c.elapsed
             /\ strategy_mapping' = strategy_mapping
             /\ success_patterns' = success_patterns
             /\ Len(strategies') = Len(strategies)
             /\ \A j \in 1..Len(strategies) :
                   strategies'[j].success_count = strategies[j].success_count]_vars

\* the strategy raised on a signature that has a mapping entry and success
\* records, and the failure is the last record of the history
C10_Witness ==
    /\ call # <<>> /\ call[1].outcome = "raised" /\ call[1].returned = None
    /\ call[1].mapped # <<>>
    /\ success_patterns[call[1].signature] # <<>>
    /\ problem_history # <<>>
    /\ problem_history[Len(problem_history)].error
    /\ Strategy(call[1].strategy[1]).failure_count > 0

(***************************************************************************)
(* Claims about GeneticEvolution, checked under SpecGenetic.               *)
(***************************************************************************)
\* C11: best_ever is replaced only by an individual of strictly higher
\* fitness, its fitness never decreases, and after each evaluation it is the
\* highest fitness evaluated so far.
C11_BestEverHighest ==
    [][/\ best_ever # <<>> =>
            /\ best_ever' # <<>>
            /\ best_ever'[1].fitness >= best_ever[1].fitness
            /\ best_ever' # best_ever => best_ever'[1].fitness > best_ever[1].fitness
       /\ (best_ever' = <<>>) <=> (best_evaluated' = <<>>)
       /\ best_ever' # <<>> => best_ever'[1].fitness = best_evaluated'[1]]_vars

\* the last evaluation found nothing as fit as best_ever, which was kept
C11_Witness ==
    /\ best_ever # <<>> /\ evolve_call # <<>>
    /\ evolve_call[1].evaluated # <<>>
    /\ \A i \in 1..Len(evolve_call[1].evaluated) :
          evolve_call[1].evaluated[i].fitness < best_ever[1].fitness

\* C12: an individual for which the fitness function raises gets fitness 0,
\* the others get the value the function returns, and evolve_generation does
\* not raise because of the fitness function.
C12_FitnessRaiseIsZero ==
    evolve_call # <<>> =>
        LET c == evolve_call[1] IN
        /\ \A i \in 1..Len(c.evaluated) :
              LET r == FitnessFunction(c.fitness_function, c.evaluated[i].ast)
              IN c.evaluated[i].fitness = IF r = <<>> THEN 0 ELSE r[1]
        /\ c.raised => (c.evaluated = <<>> \/ tournament_size > Len(c.evaluated))

\* the function raised for the first individual, the second was evaluated to
\* a non-zero fitness, and the generation was completed
C12_Witness ==
    /\ evolve_call # <<>> /\ ~evolve_call[1].raised
    /\ Len(evolve_call[1].evaluated) = 2
    /\ FitnessFunction(evolve_call[1].fitness_function, evolve_call[1].evaluated[1].ast) = <<>>
    /\ evolve_call[1].evaluated[2].fitness # 0
    /\ generation > 0

(***************************************************************************)
(* More claims about synthesize, checked under Spec.                       *)
(***************************************************************************)
\* C13: the cost of a returned program is the number of nodes of its tree
\* and lies in 1..max_program_size; the trees the call enumerates at size n
\* have exactly n nodes.
C13_CostIsNodeCount ==
    /\ (Returned /\ result # <<>>) =>
          /\ result[1].cost = AstSize(tested[Len(tested)].ast)
          /\ result[1].function = CompileAst(tested[Len(tested)].ast, primitive_ops)
          /\ 1 <= result[1].cost /\ result[1].cost <= max_program_size
    /\ \A i \in 1..Len(candidates) : AstSize(candidates[i]) = size
    /\ \A i \in 1..Len(tested) : AstSize(tested[i].ast) = tested[i].size

\* a program of two nodes that uses a learned primitive was returned
C13_Witness ==
    /\ Returned /\ result # <<>> /\ result[1].cost = 2
    /\ tested[Len(tested)].ast[1] = "apply"
    /\ tested[Len(tested)].ast[2] = "learned_0_0"

(***************************************************************************)
(* Claims about the fixed-point combinator, checked under SpecFix.         *)
(***************************************************************************)
\* C14: fix(f)(x) applies f at most 100 times; it returns the first value v
\* of x, f(x), f(f(x)), ... with f(v) = v if one is found within 100
\* applications, and otherwise the value after the 100th application.
C14_FixedPointCap ==
    fix_call # <<>> =>
        LET c == fix_call[1]
            fixed == {i \in 1..Len(c.trace) :
                        i <= 100 /\ ApplyFix(c.f, c.trace[i]) = c.trace[i]}
        IN /\ c.applications <= 100
           /\ c.trace[1] = c.x
           /\ \A i \in 1..(Len(c.trace) - 1) : c.trace[i + 1] = ApplyFix(c.f, c.trace[i])
           /\ c.returned =>
                IF fixed # {}
                THEN \E i \in fixed : /\ \A j \in fixed : i <= j
                                      /\ c.result = c.trace[i]
                                      /\ c.applications = i
                ELSE /\ Len(c.trace) = 101
                     /\ c.result = c.trace[101]
                     /\ c.applications = 100

\* a call that found no fixed point within the cap and returned the value
\* after the 100th application
C14_Witness ==
    /\ fix_call # <<>> /\ fix_call[1].returned
    /\ fix_call[1].f = [kind |-> "cap", c |-> 101] /\ fix_call[1].x = 0
    /\ fix_call[1].result = 100 /\ fix_call[1].applications = 100

\* the returned program was selected on the first k examples of the call and
\* its generalizes flag was computed on the others
SelectedOnPrefix(k) ==
    LET f == result[1].function
    IN /\ result[1].examples_satisfied = k
       /\ \A i \in 1..k : Produces(f, examples[i])
       /\ result[1].generalizes = (\A i \in (k + 1)..Len(examples) : Produces(f, examples[i]))

\* C15 (as stated): a program synthesize returns for n >= 2 examples was
\* selected on the first ceil(2n/3) examples and its generalizes flag was
\* computed on the remaining ones; for n < 2 all examples are training.
C15_CeilingSplit ==
    (Returned /\ result # <<>>) =>
        LET n == Len(examples)
        IN SelectedOnPrefix(IF n < 2 THEN n ELSE (2 * n + 2) \div 3)

\* C15 (amended): a program synthesize returns for n >= 2 examples was
\* selected on the first floor(2n/3) examples and its generalizes flag was
\* computed on the remaining ones; for n < 2 all examples are training and
\* the held-out set is empty.
C15_FloorSplit ==
    (Returned /\ result # <<>>) =>
        LET n == Len(examples)
        IN SelectedOnPrefix(IF n < 2 THEN n ELSE (2 * n) \div 3)

\* a program is returned for two examples: one is training, one is held out
C15_Witness ==
    /\ Returned /\ result # <<>>
    /\ Len(examples) = 2
    /\ result[1].examples_satisfied = 1
    /\ ~result[1].generalizes

(***************************************************************************)
(* Claims about _enumerate_programs, checked under SpecEnumerate.          *)
(***************************************************************************)
\* the ordered compositions of n into k positive parts
Compositions(n, k) == {c \in [1..k -> 1..n] : SumSeq(c) = n}

RECURSIVE WellFormedTrees(_, _)
\* the well-formed trees of exactly n nodes over the names: a leaf is a
\* registered name or one of Var(0), Var(1), Var(2); an Apply node has as many
\* children as the arity of its operator
WellFormedTrees(n, names) ==
    IF n = 1
    THEN {<<"primitive", nm>> : nm \in names} \cup {<<"var", i>> : i \in 0..2}
    ELSE UNION {UNION {{<<"apply", nm, ch>> :
                            ch \in {t \in [1..GetArity(nm) ->
                                              UNION {WellFormedTrees(c[i], names) :
                                                        i \in 1..GetArity(nm)}] :
                                        \A i \in 1..GetArity(nm) : AstSize(t[i]) = c[i]}} :
                       c \in Compositions(n - 1, GetArity(nm))} :
                nm \in names}

\* C16: the enumeration of size n yields each well-formed tree of exactly n
\* nodes exactly once: no tree is yielded twice and none is missed.
C16_EachTreeOnce ==
    enum_call # <<>> =>
        LET c == enum_call[1]
        IN /\ Cardinality(Range(c.programs)) = Len(c.programs)
           /\ Range(c.programs) = WellFormedTrees(c.size, Names(c.ops))

\* trees of 4 nodes over a registry that holds a learned name and a
\* primitive of each arity
C16_Witness ==
    /\ enum_call # <<>>
    /\ enum_call[1].size = 4
    /\ Names(enum_call[1].ops) = EnumNames
    /\ \E i \in 1..Len(enum_call[1].programs) : enum_call[1].programs[i][2] = "if"
    /\ \E i \in 1..Len(enum_call[1].programs) : enum_call[1].programs[i][2] = "learned_0_0"

\* the number of trees the enumeration yields at size m over the registry
Enumerated(m, ops) == Len(EnumeratePrograms(m, ops))

RECURSIVE ProductOfCounts(_, _)
\* the product of the numbers of trees enumerated at the part sizes
ProductOfCounts(parts, ops) ==
    IF parts = <<>> THEN 1
    ELSE Enumerated(Head(parts), ops) * ProductOfCounts(Tail(parts), ops)

RECURSIVE SumOver(_, _)
\* the sum of the products of counts over a set of compositions
SumOver(cs, ops) ==
    IF cs = {} THEN 0
    ELSE LET c == CHOOSE x \in cs : TRUE
         IN ProductOfCounts(c, ops) + SumOver(cs \ {c}, ops)

\* C17: the enumeration yields |primitives| + 3 trees at size 1, and at a size
\* n > 1 the sum, over every primitive of arity k and every ordered composition
\* of n - 1 into k positive parts, of the product of the numbers of trees
\* enumerated at the part sizes.
C17_ExactCount ==
    enum_call # <<>> =>
        LET c == enum_call[1]
        IN Len(c.programs) =
              IF c.size = 1 THEN Len(c.ops) + 3
              ELSE SumSeq([o \in 1..Len(c.ops) |->
                      SumOver(Compositions(c.size - 1, GetArity(c.ops[o].name)), c.ops)])

\* the 693 trees of 4 nodes over the four names: 77 + 77 under each unary
\* name, 196 under add and 343 under if
C17_Witness ==
    /\ enum_call # <<>>
    /\ enum_call[1].size = 4
    /\ Names(enum_call[1].ops) = EnumNames
    /\ Len(enum_call[1].programs) = 693

(***************************************************************************)
(* Claims about the candidates synthesize rejects, checked under Spec.     *)
(***************************************************************************)
\* the evaluation of the tree raises on some training example of the running call
RaisesOnTraining(ast) ==
    LET func == CompileAst(ast, primitive_ops)
        train == TrainExamples(examples)
    IN func # Raise /\ \E i \in 1..Len(train) : CallFn(func, train[i].inputs) = Raise

\* the tree evaluates without raising on some training example and returns a
\* value that is not the expected one
WrongOnTraining(ast) ==
    LET func == CompileAst(ast, primitive_ops)
        train == TrainExamples(examples)
    IN func # Raise /\ \E i \in 1..Len(train) :
            /\ CallFn(func, train[i].inputs) # Raise
            /\ ~PyEq(CallFn(func, train[i].inputs), train[i].output)

\* C18: a candidate whose compilation raises, or whose evaluation raises or
\* returns a wrong value on some training example, is not returned: the step
\* that tests it leaves the call in its loop with no result, records no
\* learned program and moves on to the next candidate of the generator.
C18_FailingCandidateSkipped ==
    [][(pc = "loop" /\ Len(tested') = Len(tested) + 1) =>
          LET ast == tested'[Len(tested')].ast
          IN (CompileAst(ast, primitive_ops) = Raise \/ RaisesOnTraining(ast)
                                                      \/ WrongOnTraining(ast)) =>
                /\ pc' = "loop"
                /\ result' = result
                /\ learned_programs' = learned_programs
                /\ candidates' = Tail(candidates)]_vars

\* a program is returned after a candidate that raised on a training example
\* and a candidate that returned a wrong value were tested
C18_Witness ==
    /\ Returned /\ result # <<>>
    /\ \E i \in 1..(Len(tested) - 1) : RaisesOnTraining(tested[i].ast)
    /\ \E i \in 1..(Len(tested) - 1) : WrongOnTraining(tested[i].ast)
    /\ MatchesTraining(tested[Len(tested)].ast)

(***************************************************************************)
(* Claims about the strategy mapping, checked under SpecMapping.           *)
(***************************************************************************)
\* the strategies that have a success record in the list
Succeeded(successes) == {successes[i].strategy : i \in 1..Len(successes)}

\* the position of the first success record of the strategy
FirstSuccess(successes, name) ==
    CHOOSE i \in 1..Len(successes) :
        /\ successes[i].strategy = name
        /\ \A j \in 1..(i - 1) : successes[j].strategy # name

\* the registered names in the order Python sorts them
SortedNames == <<"custom", "enumerative", "genetic">>

\* the position of the name among the sorted names
NameRank(name) == CHOOSE i \in 1..Len(SortedNames) : SortedNames[i] = name

\* the mapping entry of the signature is a strategy of the lowest mean time
\* over its recorded successes on it
LowestMean(sig) ==
    LET recs == success_patterns[sig]
        m == strategy_mapping[sig][1]
    IN /\ m \in Succeeded(recs)
       /\ \A t \in Succeeded(recs) : ~MeanLess(TimesOf(recs, t), TimesOf(recs, m))

\* the strategies other than the mapped one that have the same mean time
TiedWithMapped(sig) ==
    LET recs == success_patterns[sig]
        m == strategy_mapping[sig][1]
    IN {t \in Succeeded(recs) \ {m} : ~MeanLess(TimesOf(recs, m), TimesOf(recs, t))}

GenerationCompleted == generation' = generation + 1

\* the step is a call of evolve_generation that evaluated a population which
\* still holds the fittest individual of the evaluation before it, with the
\* same fitness function
EvaluatedAgain ==
    /\ evolve_call # <<>> /\ evolve_call[1].evaluated # <<>>
    /\ evolve_call' # <<>> /\ evolve_call'[1].evaluated # <<>>
    /\ evolve_call'[1].fitness_function = evolve_call[1].fitness_function
    /\ (GenerationCompleted \/ evolve_call' # evolve_call)
    /\ ~evolve_call[1].raised
    /\ population # <<>> /\ population[1] = Best(evolve_call[1].evaluated)

\* C20: each evolve_generation that completes puts an unchanged copy of the
\* fittest individual of the population it evaluated at the head of the next
\* population, and, the fitness function being the same, the best fitness of
\* the population evaluated next is not lower than that of the one before.
C20_EliteCarriedOver ==
    [][/\ GenerationCompleted =>
            /\ evolve_call' # <<>> /\ ~evolve_call'[1].raised
            /\ population'[1] = Best(evolve_call'[1].evaluated)
            /\ \A j \in 1..Len(evolve_call'[1].evaluated) :
                   evolve_call'[1].evaluated[j].fitness <= population'[1].fitness
       /\ EvaluatedAgain =>
            Best(evolve_call'[1].evaluated).fitness
                >= Best(evolve_call[1].evaluated).fitness]_vars

\* two generations were completed with the same fitness function; each time
\* the fittest individual was the second of the two evaluated, and it heads
\* the next population with its fitness and its age
C20_Witness ==
    /\ generation = 2 /\ evolve_call # <<>> /\ ~evolve_call[1].raised
    /\ Len(evolve_call[1].evaluated) = 2 /\ Len(population) = 2
    /\ evolve_call[1].evaluated[1].fitness < evolve_call[1].evaluated[2].fitness
    /\ population[1] = evolve_call[1].evaluated[2]
    /\ best_evaluated = <<population[1].fitness>>

(***************************************************************************)
(* Claims about the population, checked under SpecGenetic.                 *)
(***************************************************************************)
\* C21: after initialize_population and after every evolve_generation the
\* population holds exactly population_size individuals, and with
\* tournament_size <= population_size an evolve_generation called on such a
\* population completes: the loop that fills the next population ends.
C21_FixedSize ==
    /\ population # <<>> => Len(population) = population_size
    /\ (evolve_call # <<>> /\ evolve_call[1].evaluated # <<>>
            /\ tournament_size <= population_size) => ~evolve_call[1].raised
    /\ generation > 0 => Len(population) = population_size

\* two generations of a population of two were completed, the second
\* individual being a child made in the loop
C21_Witness ==
    /\ generation = 2 /\ population_size = 2 /\ tournament_size = 2
    /\ Len(population) = 2 /\ ~evolve_call[1].raised
    /\ population[2].ast # population[1].ast

RECURSIVE ArityRespected(_)
\* every Apply node of the tree has as many children as _get_arity gives
\* its operator
ArityRespected(ast) ==
    IF ast[1] = "apply"
    THEN /\ Len(ast[3]) = GeneticArity(ast[2])
         /\ \A i \in 1..Len(ast[3]) : ArityRespected(ast[3][i])
    ELSE TRUE

\* C22: in every tree of every individual of the population each Apply node
\* has a number of children equal to the arity of its operator.
C22_ArityRespected ==
    \A i \in 1..Len(population) : ArityRespected(population[i].ast)

(***************************************************************************)
(* Claims about crossover, checked under SpecCrossover.                    *)
(***************************************************************************)
RECURSIVE ReplaceAt(_, _, _)
\* the tree with only the subtree at the pre-order index (from 0) replaced
ReplaceAt(ast, index, new_subtree) ==
    IF index = 0 \/ ast[1] # "apply" THEN new_subtree
    ELSE <<"apply", ast[2],
           [i \in 1..Len(ast[3]) |->
                LET first == 1 + SumSeq([j \in 1..(i - 1) |-> AstSize(ast[3][j])])
                IN IF first <= index /\ index < first + AstSize(ast[3][i])
                   THEN ReplaceAt(ast[3][i], index - first, new_subtree)
                   ELSE ast[3][i]]>>

\* C23: child 1 is parent 1 with only the subtree at point1 replaced by the
\* subtree of parent 2 at point2, and child 2 is parent 2 with only the
\* subtree at point2 replaced by the subtree of parent 1 at point1.
C23_OnlyChosenSubtreeReplaced ==
    cross_call # <<>> =>
        LET c == cross_call[1]
            subtrees1 == GetAllSubtrees(c.parent1.ast)
            subtrees2 == GetAllSubtrees(c.parent2.ast)
        IN /\ c.children[1].ast = ReplaceAt(c.parent1.ast, c.point1, subtrees2[c.point2 + 1])
           /\ c.children[2].ast = ReplaceAt(c.parent2.ast, c.point2, subtrees1[c.point1 + 1])

(***************************************************************************)
(* Claims about mutate, checked under SpecMutate.                          *)
(***************************************************************************)
\* C24: hoist mutation replaces the tree by one of its own non-root
\* subtrees, so the mutated tree never has more nodes than the original; a
\* single-node tree is left unchanged.
C24_HoistShrinks ==
    (mutate_call # <<>> /\ mutate_call[1].mutation_type = "hoist") =>
        LET original == mutate_call[1].operator.ast
            mutated == mutate_call[1].mutated.ast
            subtrees == GetAllSubtrees(original)
        IN /\ AstSize(mutated) <= AstSize(original)
           /\ IF AstSize(original) = 1 THEN mutated = original
              ELSE /\ \E i \in 2..Len(subtrees) : mutated = subtrees[i]
                   /\ AstSize(mutated) < AstSize(original)

\* add(arg0, 1) was hoisted to its second child
C24_Witness ==
    /\ mutate_call # <<>> /\ mutate_call[1].mutation_type = "hoist"
    /\ mutate_call[1].operator.ast = <<"apply", "add", << <<"var", 0>>, <<"const", IntV(1)>> >> >>
    /\ mutate_call[1].mutated.ast = <<"const", IntV(1)>>
    /\ mutate_call[1].mutated.mutations = 1

(***************************************************************************)
(* More claims about the population, checked under SpecGenetic.            *)
(***************************************************************************)
\* C25: age counts the generations survived: the individual elitism carries
\* into the next population is one generation older there than it was in the
\* population evaluated, and every child made in the loop has age 0.
C25_AgeCountsGenerations ==
    [][GenerationCompleted =>
          /\ population'[1].age = Best(evolve_call'[1].evaluated).age + 1
          /\ \A i \in 2..Len(population') : population'[i].age = 0]_vars

(***************************************************************************)
(* Claims about run_evolution, checked under SpecRun.                      *)
(***************************************************************************)
\* the call returned an individual
ReturnedIndividual ==
    /\ run_call # <<>> /\ run_call[1].returned # <<>>
    /\ run_call[1].returned[1] \notin {None, Raise}

\* C28: the individual run_evolution returns was evaluated during that run:
\* it is one of the individuals the run evaluated, its fitness is the value
\* the fitness function of the run assigns to its tree, and no individual the
\* run evaluated is fitter.
C28_ReturnedWasEvaluated ==
    ReturnedIndividual =>
        LET c == run_call[1]
            best == c.returned[1]
        IN /\ best \in c.evaluated
           /\ best.fitness = AssignedFitness(best, c.fitness_function)
           /\ \A op \in c.evaluated : op.fitness <= best.fitness

(***************************************************************************)
(* More claims about the MetaLearner, checked under SpecMeta.              *)
(***************************************************************************)
\* 'enumerative' is registered and was so when the first strategy ran
EnumerativeFromTheStart ==
    /\ "enumerative" \in StrategyKeys
    /\ problem_history # <<>> => problem_history[1].strategy = "enumerative"

\* C26: when 'enumerative' is registered before the first attempt, every
\* attempt runs 'enumerative': every history record names it, every mapping
\* entry is 'enumerative', and the success_count and failure_count of every
\* other registered strategy stay 0.
C26_OnlyEnumerativeRuns ==
    EnumerativeFromTheStart =>
        /\ \A i \in 1..Len(problem_history) : problem_history[i].strategy = "enumerative"
        /\ \A sig \in Signatures : strategy_mapping[sig] \in {<<>>, <<"enumerative">>}
        /\ \A i \in 1..Len(strategies) :
              strategies[i].name # "enumerative" =>
                  strategies[i].success_count = 0 /\ strategies[i].failure_count = 0

\* 'genetic' and 'enumerative' are registered; 'enumerative' found nothing on
\* a signature and was run on the same signature again
C26_Witness ==
    /\ EnumerativeFromTheStart /\ "genetic" \in StrategyKeys
    /\ Len(problem_history) = 2
    /\ ~problem_history[1].success
    /\ problem_history[2].problem = problem_history[1].problem
    /\ problem_history[2].strategy = "enumerative"
    /\ Strategy("enumerative").failure_count >= 1

\* all success records of the signature name one strategy, and the mapping
\* entry of the signature, when present, is that strategy
OneStrategyPerSignature(sig) ==
    LET recs == success_patterns[sig]
    IN /\ \A i, j \in 1..Len(recs) : recs[i].strategy = recs[j].strategy
       /\ strategy_mapping[sig] # <<>> =>
              /\ recs # <<>>
              /\ \A i \in 1..Len(recs) : recs[i].strategy = strategy_mapping[sig][1]
       /\ recs # <<>> => strategy_mapping[sig] # <<>>

\* C27: in every state reachable through register_strategy and
\* attempt_synthesis all success records of a signature name one single
\* strategy and the mapping entry of the signature, when present, is that
\* strategy; a mapping entry never changes once it has been set.
C27_MappingSettled ==
    /\ [](\A sig \in Signatures : OneStrategyPerSignature(sig))
    /\ [][\A sig \in Signatures :
            strategy_mapping[sig] # <<>> => strategy_mapping'[sig] = strategy_mapping[sig]]_vars

\* 'genetic' succeeded twice on a signature, the second time slower and after
\* 'enumerative' was registered, and is its mapping entry
C27_Witness ==
    \E sig \in Signatures :
        /\ Len(success_patterns[sig]) = 2
        /\ success_patterns[sig][1].strategy = "genetic"
        /\ success_patterns[sig][1].time < success_patterns[sig][2].time
        /\ strategy_mapping[sig] = <<"genetic">>
        /\ call # <<>> /\ "enumerative" \in call[1].keys

RECURSIVE SuccessCounts(_)
\* the sum of success_count over the first n strategies
SuccessCounts(n) == IF n = 0 THEN 0 ELSE strategies[n].success_count + SuccessCounts(n - 1)

RECURSIVE FailureCounts(_)
\* the sum of failure_count over the first n strategies
FailureCounts(n) == IF n = 0 THEN 0 ELSE strategies[n].failure_count + FailureCounts(n - 1)

\* the number of problem_history records with success = True
SuccessesInHistory ==
    Cardinality({i \in 1..Len(problem_history) : problem_history[i].success})

C30_CapabilitiesFollowRegistry ==
    /\ capabilities = Names(primitive_ops)
    /\ Cardinality(Range(registrations)) = Len(registrations)
    /\ IF learn_call = <<>> THEN TRUE
       ELSE learn_call[1].returned # <<>> =>
                learn_call[1].returned[1] =
                    Cardinality(Names(primitive_ops) \ learn_call[1].before)

\* the second call was given two problems and has returned 1, after a first
\* call that registered two names
C30_Witness ==
    /\ agi_generation = 2
    /\ learn_call # <<>>
    /\ learn_call[1].returned = <<1>>
    /\ Len(learn_call[1].problem_set) = 2
    /\ registrations = <<"learned_0_0", "learned_0_1", "learned_1_1">>
    /\ Cardinality(capabilities) = Cardinality(initial_capabilities) + 3

====
